---------------------------- MODULE Spec2Model ----------------------------
(***************************************************************************)
(* State-machine model of the RP2 / Wolfram-Bogoliubov simulation engine   *)
(* (src/core): the WBModel fields and reservoir, the Metropolis sweep, the *)
(* phase relaxation, step_simulation, the effective metric, the            *)
(* metric-biased propagator and the soliton-cluster search.                *)
(*                                                                         *)
(* Number representation.  Python floats are modelled in fixed point:      *)
(* a real v is the integer v * Q (Q = 100, two decimals), a product is     *)
(* truncated with \div Q as the code's float product is rounded.  Phases   *)
(* live on a grid of PhaseUnits points of [0, 2*pi) (quarter turns), on    *)
(* which cos and sin are exact.                                            *)
(***************************************************************************)
EXTENDS Integers, Sequences, FiniteSets, TLC

(***************************************************************************)
(* Bounds of the model and representation constants                        *)
(***************************************************************************)
NumNodes == 3

MaxSweeps == 1

MaxRelaxSteps == 1

Q == 100

PhaseUnits == 4

DefaultRelaxSteps == 5

DefaultSweeps == 1

PiQ == 314

Nodes == 0 .. (NumNodes - 1)

Phases == 0 .. (PhaseUnits - 1)

Spins == {-1, 1}

Max(a, b) == IF a >= b THEN a ELSE b

Min(a, b) == IF a <= b THEN a ELSE b

(***************************************************************************)
(* cos and sin of an angle given in grid units (any integer), times Q.     *)
(***************************************************************************)
CosQ(k) == CASE k % PhaseUnits = 0 -> Q
             [] k % PhaseUnits = 2 -> -Q
             [] OTHER -> 0

SinQ(k) == CASE k % PhaseUnits = 1 -> Q
             [] k % PhaseUnits = 3 -> -Q
             [] OTHER -> 0

\* A_top: pi on a TS link, 0 on a normal link, in grid units.
A_top(is_ts) == IF is_ts THEN PhaseUnits \div 2 ELSE 0

\* np.power(x, k) for a natural exponent k, in fixed point.
RECURSIVE PowQ(_, _)
PowQ(x, k) == IF k = 0 THEN Q ELSE (x * PowQ(x, k - 1)) \div Q

\* Q * exp(-x / Q) for x >= 0, tabulated in steps of a quarter.
ExpTable == <<100, 77, 60, 47, 36, 28, 22, 17, 13, 10, 8, 6, 4, 3, 3, 2, 1, 1, 1>>

ExpNegQ(x) == LET k == (x * 4) \div Q
              IN  IF k + 1 <= Len(ExpTable) THEN ExpTable[k + 1] ELSE 0

\* The values np.random.random() is drawn from, times Q: a draw is in [0, 1).
Draws == {0, 50, 99}

(***************************************************************************)
(* Graphs (the topology provider's contract: neighbours and TS flags).      *)
(* A graph is [edges : set of 2-element node sets, ts : subset of edges].   *)
(***************************************************************************)
PathEdges(n) == {{i, i + 1} : i \in 0 .. (n - 2)}

\* Path over all nodes, its last link flagged TS.
GraphPathTS == [edges |-> PathEdges(NumNodes),
                ts |-> {{NumNodes - 2, NumNodes - 1}}]

\* Path over all nodes but the last, which has no edge; no TS link.
GraphIsolated == [edges |-> PathEdges(NumNodes - 1), ts |-> {}]

\* Path over all nodes, no TS link.
GraphPath == [edges |-> PathEdges(NumNodes), ts |-> {}]

(***************************************************************************)
(* Configurations: WBModel.config after the update with the caller's dict.  *)
(* Values are in fixed point (Q = 1.0) except the exponents eta1, eta2      *)
(* (naturals) and delta_phi_relaxation_step (grid units per unit force,     *)
(* times Q).                                                                *)
(***************************************************************************)
BaseConfig == [E0 |-> 0, DeltaE |-> 10, J_Wb_normal |-> 100,
               J_prime_Wb_ts |-> 100, T_eff |-> 100, V0_base |-> 50,
               N_pot_max_sites_factor |-> 100,
               N_pot_initial_fraction |-> 100,
               eta1 |-> 1, eta2 |-> 1, alpha_phase |-> 50,
               beta_asym |-> 200,
               delta_Npot_base_actualisation |-> 100,
               delta_phi_relaxation_step |-> 100]

ConfigHalf == [BaseConfig EXCEPT !.N_pot_initial_fraction = 50, !.T_eff = 10]

VARIABLES
    graph,        \* WBModel.graph / network
    config,       \* WBModel.config
    sigma,        \* WBModel.sigma : node -> spin
    phi,          \* WBModel.phi : node -> phase (grid units)
    N_pot,        \* WBModel.N_pot
    N_pot_max,    \* WBModel.N_pot_max
    rho,          \* model.rho : node -> density
    g_eff,        \* model.g_eff_iso / g_eff_aniso / g_eff_T (not stored
                  \* before the first compute_g_eff)
    pc,           \* "idle", or "sweep" inside monte_carlo_sweep
    tick,         \* position of step_simulation: "none", "mc", "relax"
    perm,         \* node_indices of the running sweep
    pos,          \* index in perm of the next node to visit
    sweeps_left,  \* sweeps still to run after the current one
    flips,        \* total_flips of the running sweep call
    trace,        \* components run by the current / last step_simulation
    prior_sigma,  \* sigma when the current / last step_simulation began
                  \* (<<>> outside a tick and its result)
    last,         \* outcome of the last operation
    run           \* the call of run_simulation: its arguments, loop index,
                  \* history and callback invocations

vars == <<graph, config, sigma, phi, N_pot, N_pot_max, rho, g_eff, pc, tick,
          perm, pos, sweeps_left, flips, trace, prior_sigma, last, run>>

\* No call of run_simulation has been made.
NoRun == [active |-> FALSE, num_steps |-> 0, step |-> 0, callback |-> FALSE,
          history |-> <<>>, calls |-> <<>>]


(***************************************************************************)
(* Topology queries (RP2Graph.get_neighbors, RP2Graph.is_ts)               *)
(***************************************************************************)
get_neighbors(node) == {m \in Nodes : {node, m} \in graph.edges /\ m # node}

is_ts(node1, node2) == {node1, node2} \in graph.ts

\* d.get(key, default) of a Python dict held as a function.
dict_get(d, key, default) == IF key \in DOMAIN d THEN d[key] ELSE default

\* Sum of f[x] over the finite set S.
RECURSIVE SumOver(_, _)
SumOver(S, f) == IF S = {} THEN 0
                 ELSE LET x == CHOOSE y \in S : TRUE
                      IN  f[x] + SumOver(S \ {x}, f)

(***************************************************************************)
(* WBModel: energy and barrier model (src/core/wb_model.py)                *)
(***************************************************************************)
\* N_pot / N_pot_max, guarded against N_pot_max = 0.
N_pot_ratio(np) == IF N_pot_max > 0 THEN (np * Q) \div N_pot_max ELSE 0

\* sum(1 for s in self.sigma.values() if s == 1)
count_active_nodes(sig) == Cardinality({n \in DOMAIN sig : sig[n] = 1})

get_effective_rho(sig, np, node) ==
    IF dict_get(sig, node, -1) = -1 THEN 10
    ELSE 30 + (70 * N_pot_ratio(np)) \div Q

calculate_interaction_energy(sig, ph, node1, node2) ==
    IF dict_get(sig, node1, 0) = 1 /\ dict_get(sig, node2, 0) = 1
    THEN LET J_eff == IF is_ts(node1, node2) THEN config.J_prime_Wb_ts
                      ELSE config.J_Wb_normal
         IN  -((J_eff * CosQ(dict_get(ph, node1, 0) - dict_get(ph, node2, 0)
                             - A_top(is_ts(node1, node2)))) \div Q)
    ELSE 0

\* Variant of calculate_node_energy: the sign of the reservoir-fill term is
\* inverted.
calculate_node_energy_inverted(sig, ph, np, node) ==
    LET DeltaE_current == (config.DeltaE * (2 * N_pot_ratio(np) - Q)) \div Q
        inter == [m \in Nodes |->
                    calculate_interaction_energy(sig, ph, node, m)]
    IN  config.E0 + sig[node] * DeltaE_current
        + SumOver(get_neighbors(node), inter)

calculate_node_energy(sig, ph, np, node) ==
    LET DeltaE_current == (config.DeltaE * (2 * N_pot_ratio(np) - Q)) \div Q
        inter == [m \in Nodes |->
                    calculate_interaction_energy(sig, ph, node, m)]
    IN  config.E0 - dict_get(sig, node, 0) * DeltaE_current
        + SumOver(get_neighbors(node), inter)

\* The barrier of one TS link (node, neighbor) for the proposed transition:
\* [barrier, consumption].
link_barrier(sig, ph, np, node, neighbor, proposed_sigma) ==
    LET phase_term == (config.alpha_phase
                       * (Q - CosQ(dict_get(ph, node, 0)
                                   - dict_get(ph, neighbor, 0)
                                   - A_top(TRUE))))
                      \div Q
        G_Npot == PowQ(Max(1, Max(0, Q - (np * Q) \div N_pot_max)),
                       config.eta1)
        F_Npot == PowQ(Max(1, Max(0, (np * Q) \div N_pot_max)), config.eta2)
    IN  IF dict_get(sig, node, 0) = -1 /\ proposed_sigma = 1
        THEN LET b == (((config.V0_base * (Q + phase_term)) \div Q) * G_Npot)
                      \div Q
             IN  [barrier |-> b, consumption |-> b]
        ELSE IF /\ dict_get(sig, node, 0) = 1 /\ proposed_sigma = -1
                /\ dict_get(sig, neighbor, 0) = 1
        THEN [barrier |-> (((config.V0_base
                             * (config.beta_asym + phase_term)) \div Q)
                           * F_Npot) \div Q,
              consumption |-> 0]
        ELSE [barrier |-> 0, consumption |-> 0]

\* (total_barrier, potential_N_pot_consumption), summed over the TS links.
calculate_barrier_cost(sig, ph, np, node, proposed_sigma) ==
    LET tsn == {m \in get_neighbors(node) : is_ts(node, m)}
        b == [m \in Nodes |->
                link_barrier(sig, ph, np, node, m, proposed_sigma).barrier]
        c == [m \in Nodes |->
                link_barrier(sig, ph, np, node, m, proposed_sigma).consumption]
    IN  [total_barrier |-> SumOver(tsn, b),
         potential_consumption |-> SumOver(tsn, c)]

\* Variant of can_afford_transition: the reservoir level is not compared
\* with the cost.
can_afford_unchecked(sig, ph, np, node, proposed_sigma) ==
    IF sig[node] = -1 /\ proposed_sigma = 1
    THEN [can_afford |-> TRUE,
          cost |-> config.delta_Npot_base_actualisation
                   + calculate_barrier_cost(sig, ph, np, node,
                                            proposed_sigma).potential_consumption]
    ELSE [can_afford |-> TRUE, cost |-> 0]

\* Variant of can_afford_transition: the reservoir level is compared with
\* the base cost only, not with the total cost.
can_afford_base_only(sig, ph, np, node, proposed_sigma) ==
    IF dict_get(sig, node, 0) = -1 /\ proposed_sigma = 1
    THEN LET total_cost ==
                 config.delta_Npot_base_actualisation
                 + calculate_barrier_cost(sig, ph, np, node,
                                          proposed_sigma).potential_consumption
         IN  [can_afford |-> np >= config.delta_Npot_base_actualisation,
              cost |-> total_cost]
    ELSE [can_afford |-> TRUE, cost |-> 0]

\* (can_afford, cost): only P -> A consumes the reservoir.
can_afford_transition(sig, ph, np, node, proposed_sigma) ==
    IF dict_get(sig, node, 0) = -1 /\ proposed_sigma = 1
    THEN LET total_cost ==
                 config.delta_Npot_base_actualisation
                 + calculate_barrier_cost(sig, ph, np, node,
                                          proposed_sigma).potential_consumption
         IN  [can_afford |-> np >= total_cost, cost |-> total_cost]
    ELSE [can_afford |-> TRUE, cost |-> 0]

\* Variant of update_N_pot: the cost is added instead of subtracted.
update_N_pot_added(np, cost) == Max(0, np + cost)

\* self.N_pot = max(0.0, self.N_pot - cost)
update_N_pot(np, cost) == Max(0, np - cost)

(***************************************************************************)
(* metropolis_step (src/core/montecarlo.py)                                *)
(***************************************************************************)
\* model.sigma[node] = proposed_sigma: the trial flip, and the applied flip.
set_sigma(sig, node, value) ==
    [n \in DOMAIN sig \cup {node} |-> IF n = node THEN value ELSE sig[n]]

\* Variant of restore_sigma: the trial flip is left in place.
restore_sigma_skipped(sig, node, original_sigma) == sig

\* model.sigma[node] = original_sigma: the restoration after the trial.
restore_sigma(sig, node, original_sigma) ==
    [n \in DOMAIN sig \cup {node} |->
        IF n = node THEN original_sigma ELSE sig[n]]

\* Variant of N_pot_after_flip: every applied flip is charged the base cost.
N_pot_after_flip_any(np, original_sigma, proposed_sigma, cost) ==
    IF original_sigma = -1 /\ proposed_sigma = 1
    THEN update_N_pot(np, cost)
    ELSE update_N_pot(np, config.delta_Npot_base_actualisation)

\* Variant of N_pot_after_flip: an applied activation is not charged.
N_pot_after_flip_free(np, original_sigma, proposed_sigma, cost) == np

\* Variant of N_pot_after_flip: an applied deactivation gives the base cost
\* back to the reservoir.
N_pot_after_flip_refunding(np, original_sigma, proposed_sigma, cost) ==
    IF original_sigma = -1 /\ proposed_sigma = 1
    THEN update_N_pot(np, cost)
    ELSE np + config.delta_Npot_base_actualisation

\* The reservoir after an applied flip: only P -> A is charged.
N_pot_after_flip(np, original_sigma, proposed_sigma, cost) ==
    IF original_sigma = -1 /\ proposed_sigma = 1
    THEN update_N_pot(np, cost)
    ELSE np

\* Variant of metropolis_accept: the comparison with the draw is inverted.
metropolis_accept_inverted(delta_energy_total, u) ==
    IF delta_energy_total <= 0 THEN TRUE
    ELSE IF config.T_eff > 0
         THEN u >= ExpNegQ((delta_energy_total * Q) \div config.T_eff)
         ELSE FALSE

\* The Metropolis rule on an affordable proposal; u is the random draw.
metropolis_accept(delta_energy_total, u) ==
    IF delta_energy_total <= 0 THEN TRUE
    ELSE IF config.T_eff > 0
         THEN u < ExpNegQ((delta_energy_total * Q) \div config.T_eff)
         ELSE FALSE

\* One call metropolis_step(model, node) with default arguments, on fields
\* (sig, ph, np) and random draw u: the fields it leaves and what it returns.
metropolis_step(sig, ph, np, node, u) ==
    LET current_sigma == dict_get(sig, node, 0)
        proposed_sigma == -current_sigma
        current_energy == calculate_node_energy(sig, ph, np, node)
        trial == set_sigma(sig, node, proposed_sigma)
        proposed_energy == calculate_node_energy(trial, ph, np, node)
        restored == restore_sigma(trial, node, current_sigma)
        bc == calculate_barrier_cost(restored, ph, np, node, proposed_sigma)
        delta_energy_total == (proposed_energy - current_energy)
                              + bc.total_barrier
        aff == can_afford_transition(restored, ph, np, node, proposed_sigma)
        did_flip == aff.can_afford /\ metropolis_accept(delta_energy_total, u)
    IN  [sigma |-> IF did_flip
                   THEN set_sigma(restored, node, proposed_sigma)
                   ELSE restored,
         N_pot |-> IF did_flip
                   THEN N_pot_after_flip(np, current_sigma, proposed_sigma,
                                         aff.cost)
                   ELSE np,
         did_flip |-> did_flip,
         can_afford |-> aff.can_afford,
         cost |-> aff.cost,
         delta |-> delta_energy_total,
         from |-> current_sigma]


(***************************************************************************)
(* relax_phases (src/core/montecarlo.py)                                   *)
(***************************************************************************)
\* Variant of phi_force: the force has the opposite sign.
phi_force_repelling(sig, ph, i) ==
    IF sig[i] = 1
    THEN LET f == [j \in Nodes |->
                     IF sig[j] = 1
                     THEN LET J_eff == IF is_ts(i, j)
                                       THEN config.J_prime_Wb_ts
                                       ELSE config.J_Wb_normal
                          IN  (J_eff * SinQ(ph[i] - ph[j]
                                            - A_top(is_ts(i, j)))) \div Q
                     ELSE 0]
         IN  SumOver(get_neighbors(i), f)
    ELSE 0

\* phi_force of node i: only A-A interactions contribute.
phi_force(sig, ph, i) ==
    IF sig[i] = 1
    THEN LET f == [j \in Nodes |->
                     IF sig[j] = 1
                     THEN LET J_eff == IF is_ts(i, j)
                                       THEN config.J_prime_Wb_ts
                                       ELSE config.J_Wb_normal
                          IN  -((J_eff * SinQ(ph[i] - ph[j]
                                              - A_top(is_ts(i, j)))) \div Q)
                     ELSE 0]
         IN  SumOver(get_neighbors(i), f)
    ELSE 0

\* model.phi[i] % (2 * np.pi): the normalisation into [0, 2*pi).
normalize_phase(x) == x % PhaseUnits

\* One relaxation step: all forces are computed from ph, then the phases of
\* the active nodes are moved and normalised.
relax_step(sig, ph) ==
    LET phi_forces == [i \in Nodes |-> phi_force(sig, ph, i)]
    IN  [i \in Nodes |->
           IF sig[i] = 1
           THEN normalize_phase(ph[i]
                  + (config.delta_phi_relaxation_step * phi_forces[i])
                    \div (Q * Q))
           ELSE ph[i]]

\* relax_phases(model, num_steps): the phases after num_steps steps.
RECURSIVE relax_phases(_, _, _)
relax_phases(sig, ph, num_steps) ==
    IF num_steps = 0 THEN ph
    ELSE relax_phases(sig, relax_step(sig, ph), num_steps - 1)

(***************************************************************************)
(* WBModel.__init__ and initialize_fields                                  *)
(***************************************************************************)
SigmaConfigs == {"all_P", "center_A", "random"}

PhiConfigs == {"uniform_zero", "random"}

\* The sigma fields initialize_fields can produce for a pattern.
initial_sigma(sigma_config) ==
    CASE sigma_config = "all_P" -> {[n \in Nodes |-> -1]}
      [] sigma_config = "center_A" ->
            {[n \in Nodes |-> IF n = NumNodes \div 2 THEN 1 ELSE -1]}
      [] OTHER -> [Nodes -> Spins]

\* The phi fields initialize_fields can produce for a pattern.
initial_phi(phi_config) ==
    IF phi_config = "uniform_zero" THEN {[n \in Nodes |-> 0]}
    ELSE [Nodes -> Phases]

\* The phase fields the model draws for the "random" pattern (and the
\* uniform-zero field).
PhaseInputs == {[n \in Nodes |-> 0], [n \in Nodes |-> n % PhaseUnits],
                [n \in Nodes |-> (3 * n + 1) % PhaseUnits]}

\* The record of an operation that is not a Metropolis proposal; clusters
\* is the list find_soliton_clusters returned.
OpRecord(op) == [op |-> op, node |-> -1, did_flip |-> FALSE,
                 can_afford |-> FALSE, u |-> -1, flips |-> 0,
                 clusters |-> <<>>]

\* The record of a Metropolis proposal; the draw is kept only when the
\* code consumes one (affordable, uphill, T_eff > 0).
\* flips is the "flips" statistic when the proposal ends a sweep call.
StepRecord(op, node, r, u, total_flips) ==
    [op |-> op, node |-> node, did_flip |-> r.did_flip,
     can_afford |-> r.can_afford,
     u |-> IF r.can_afford /\ r.delta > 0 /\ config.T_eff > 0 THEN u ELSE -1,
     flips |-> total_flips, clusters |-> <<>>]

\* The density field a caller attaches to the model (WBModel creates none).
AttachedRho == [n \in Nodes |-> IF n < NumNodes - 1 THEN 90 ELSE 40]

\* The state after WBModel(graph, config) and initialize_fields(...).
Construct(g, c, sc, pcfg) ==
    /\ graph = g
    /\ config = c
    /\ N_pot_max = NumNodes * c.N_pot_max_sites_factor
    /\ N_pot = (NumNodes * c.N_pot_max_sites_factor
                * c.N_pot_initial_fraction) \div Q
    /\ sigma \in initial_sigma(sc)
    /\ phi \in initial_phi(pcfg) \cap PhaseInputs
    /\ g_eff = [stored |-> FALSE]
    /\ pc = "idle"
    /\ tick = "none"
    /\ perm = <<>>
    /\ pos = 0
    /\ sweeps_left = 0
    /\ flips = 0
    /\ trace = <<>>
    /\ prior_sigma = <<>>
    /\ last = OpRecord("init")
    /\ run = NoRun

Init ==
    /\ \E g \in {GraphPathTS}, c \in {BaseConfig, ConfigHalf},
          sc \in SigmaConfigs, pcfg \in PhiConfigs :
          Construct(g, c, sc, pcfg)
    /\ rho = AttachedRho

(***************************************************************************)
(* Operations                                                              *)
(***************************************************************************)
Idle == pc = "idle" /\ tick = "none"

\* np.random.permutation(num_nodes)
NodePermutations == {p \in [1 .. NumNodes -> Nodes] :
                   \A i, j \in 1 .. NumNodes : p[i] = p[j] => i = j}

\* A direct call metropolis_step(model, node).
MetropolisStep ==
    /\ Idle
    /\ \E node \in Nodes, u \in Draws :
          LET r == metropolis_step(sigma, phi, N_pot, node, u)
          IN  /\ sigma' = r.sigma
              /\ N_pot' = r.N_pot
              /\ last' = StepRecord("metropolis_step", node, r, u, 0)
    /\ trace' = <<>>
    /\ prior_sigma' = <<>>
    /\ UNCHANGED <<graph, config, phi, N_pot_max, rho, g_eff, pc,
                   tick, perm, pos, sweeps_left, flips>>
    /\ UNCHANGED run

\* Entry of monte_carlo_sweep(model, num_sweeps): counters reset and the
\* first permutation drawn.
EnterSweep(num_sweeps) ==
    /\ pc' = "sweep"
    /\ \E p \in NodePermutations : perm' = p
    /\ pos' = 1
    /\ sweeps_left' = num_sweeps - 1
    /\ flips' = 0

\* A direct call monte_carlo_sweep(model, num_sweeps).
MonteCarloSweep ==
    /\ Idle
    /\ \E num_sweeps \in 1 .. MaxSweeps : EnterSweep(num_sweeps)
    /\ last' = OpRecord("monte_carlo_sweep")
    /\ trace' = <<>>
    /\ prior_sigma' = <<>>
    /\ UNCHANGED <<graph, config, sigma, phi, N_pot, N_pot_max, rho, g_eff,
                   tick>>
    /\ UNCHANGED run

\* Variant of after_sweep: step_simulation returns right after the sweep.
after_sweep_returns(t) == IF t = "mc" THEN "none" ELSE t

\* Where step_simulation stands once monte_carlo_sweep has returned: its
\* next statement is the call of relax_phases.
after_sweep(t) == IF t = "mc" THEN "relax" ELSE t

\* The sweep has visited every node of its last permutation.
sweep_finished(p, k, left) == k = Len(p) /\ left = 0

\* Variant of sweep_node: every iteration visits the first node of the
\* permutation.
sweep_node_first(p, k) == p[1]

\* for node_idx in node_indices: the node of the k-th iteration.
sweep_node(p, k) == p[k]

\* One iteration of the sweep's inner loop: metropolis_step on the next node
\* of the permutation; after the last node either the next sweep's
\* permutation is drawn or monte_carlo_sweep returns its statistics (and
\* its locals are gone).
SweepStep ==
    /\ pc = "sweep"
    /\ pos <= Len(perm)
    /\ \E u \in Draws :
          LET node == sweep_node(perm, pos)
              r == metropolis_step(sigma, phi, N_pot, node, u)
              total_flips == IF r.did_flip THEN flips + 1 ELSE flips
          IN  /\ sigma' = r.sigma
              /\ N_pot' = r.N_pot
              /\ IF sweep_finished(perm, pos, sweeps_left)
                 THEN /\ flips' = 0
                      /\ last' = StepRecord("sweep_return", node, r, u,
                                            total_flips)
                 ELSE /\ flips' = total_flips
                      /\ last' = StepRecord("sweep_step", node, r, u, 0)
    /\ IF sweep_finished(perm, pos, sweeps_left)
       THEN /\ pc' = "idle"
            /\ tick' = after_sweep(tick)
            /\ perm' = <<>>
            /\ pos' = 0
            /\ UNCHANGED sweeps_left
       ELSE IF pos = Len(perm)
       THEN /\ \E p \in NodePermutations : perm' = p
            /\ pos' = 1
            /\ sweeps_left' = sweeps_left - 1
            /\ UNCHANGED <<pc, tick>>
       ELSE /\ pos' = pos + 1
            /\ UNCHANGED <<pc, tick, perm, sweeps_left>>
    /\ UNCHANGED <<graph, config, phi, N_pot_max, rho, g_eff, trace, prior_sigma>>
    /\ UNCHANGED run

\* A direct call relax_phases(model, num_steps).
RelaxPhases ==
    /\ Idle
    /\ \E num_steps \in 1 .. MaxRelaxSteps :
          phi' = relax_phases(sigma, phi, num_steps)
    /\ last' = OpRecord("relax_phases")
    /\ trace' = <<>>
    /\ prior_sigma' = <<>>
    /\ UNCHANGED <<graph, config, sigma, N_pot, N_pot_max, rho, g_eff,
                   pc, tick, perm, pos, sweeps_left, flips>>
    /\ UNCHANGED run

(***************************************************************************)
(* find_soliton_clusters (src/core/cluster_utils.py)                       *)
(***************************************************************************)
\* The thresholds and refund factors a configuration could name.
SolitonThresholds == {50}

RefundFactors == {50}

\* The breadth-first search from the members found so far: the neighbours
\* at or above the threshold that are not visited yet join until none is
\* left (visited holds the members of the clusters found before).
RECURSIVE grow_cluster(_, _, _, _)
grow_cluster(r, threshold, visited, cluster) ==
    LET reached == {v \in Nodes \ (visited \cup cluster) :
                      /\ r[v] >= threshold
                      /\ \E u \in cluster : v \in get_neighbors(u)}
    IN  IF reached = {} THEN cluster
        ELSE grow_cluster(r, threshold, visited, cluster \cup reached)

\* Variant of skip_start: a node already visited starts a cluster of its
\* own.
skip_start_unvisited(r, threshold, visited, i) == r[i] < threshold

\* if val < threshold or i in visited: continue
skip_start(r, threshold, visited, i) == r[i] < threshold \/ i \in visited

\* The loop over rho.items() from node i on: the list of the clusters found,
\* in the order of their first nodes.
RECURSIVE cluster_list(_, _, _, _)
cluster_list(r, threshold, visited, i) ==
    IF i >= NumNodes THEN <<>>
    ELSE IF skip_start(r, threshold, visited, i)
    THEN cluster_list(r, threshold, visited, i + 1)
    ELSE LET cluster == grow_cluster(r, threshold, visited, {i})
         IN  <<cluster>> \o cluster_list(r, threshold, visited \cup cluster,
                                         i + 1)

\* The clusters find_soliton_clusters(graph, rho, threshold) returns, as a
\* set.
find_soliton_clusters(r, threshold) ==
    {cluster_list(r, threshold, {}, 0)[k] :
        k \in DOMAIN cluster_list(r, threshold, {}, 0)}

\* The refund the cluster accounting of the claims would make: for every
\* cluster with a member active in the snapshot and every member inactive
\* now, refund_factor times the sum of the members' densities.
cluster_refund(prior, sig, r, refund_factor, threshold) ==
    LET qualifying == {c \in find_soliton_clusters(r, threshold) :
                         /\ \E n \in c : prior[n] = 1
                         /\ \A n \in c : sig[n] = -1}
        amount == [c \in qualifying |-> (refund_factor * SumOver(c, r)) \div Q]
    IN  SumOver(qualifying, amount)

(***************************************************************************)
(* step_simulation (src/core/dynamics.py)                                  *)
(***************************************************************************)
\* step_simulation(model) begins: its first statement calls
\* monte_carlo_sweep(model, num_sweeps = num_mc_sweeps).
StepSimulation ==
    /\ Idle
    /\ EnterSweep(DefaultSweeps)
    /\ tick' = "mc"
    /\ trace' = <<"monte_carlo_sweep">>
    /\ prior_sigma' = sigma
    /\ last' = OpRecord("step_simulation_begin")
    /\ UNCHANGED <<graph, config, sigma, phi, N_pot, N_pot_max, rho, g_eff>>
    /\ UNCHANGED run

\* Variant of StepSimulationRelax: the clusters dissolved since the snapshot
\* are refunded to the reservoir before the relaxation.
StepSimulationRelax_refunding ==
    /\ tick = "relax"
    /\ pc = "idle"
    /\ \E rf \in RefundFactors, th \in SolitonThresholds :
          N_pot' = Min(N_pot_max,
                       N_pot + cluster_refund(prior_sigma, sigma, rho, rf, th))
    /\ phi' = relax_phases(sigma, phi, DefaultRelaxSteps)
    /\ tick' = "none"
    /\ trace' = Append(trace, "relax_phases")
    /\ last' = OpRecord("step_simulation")
    /\ UNCHANGED <<graph, config, sigma, N_pot_max, rho, g_eff, pc, perm, pos,
                   sweeps_left, flips, prior_sigma>>
    /\ UNCHANGED run

\* step_simulation continues after the sweep returned: relax_phases with
\* num_relax_steps, then the statistics are returned.
StepSimulationRelax ==
    /\ tick = "relax"
    /\ pc = "idle"
    /\ phi' = relax_phases(sigma, phi, DefaultRelaxSteps)
    /\ tick' = "none"
    /\ trace' = Append(trace, "relax_phases")
    /\ last' = OpRecord("step_simulation")
    /\ UNCHANGED <<graph, config, sigma, N_pot, N_pot_max, rho, g_eff,
                   pc, perm, pos, sweeps_left, flips, prior_sigma>>
    /\ UNCHANGED run

(***************************************************************************)
(* relax_phases in double arithmetic (src/core/montecarlo.py).             *)
(* The same statements as relax_step, evaluated as the interpreter         *)
(* evaluates them on phases that are exactly 0.0 or fl(2*pi), the double   *)
(* nearest to 2*pi (grid values 0 and PhaseUnits).  There every sine is a  *)
(* rounding residue of pi: quantities below the resolution Q are counted   *)
(* in units of sin(fl(pi)) / Q = 1.22e-18.                                 *)
(***************************************************************************)
\* np.sin(np.pi) = 1.2246e-16, in those units.
SinResidue == 100

\* Half the spacing of the doubles around 2*pi (4.44e-16): a double this
\* close to fl(2*pi) rounds to fl(2*pi).
HalfUlpTwoPi == 362

\* delta_phi_relaxation_step in radians, times Q.
StepRadQ == (config.delta_phi_relaxation_step * PiQ) \div (2 * Q)

\* np.sin(phi_i - phi_j - A_top): phi_i - phi_j is 0, fl(2*pi) or
\* -fl(2*pi) exactly; sin(k * fl(pi)) is the residue k * (pi - fl(pi)) up
\* to sign.
float_sin(phi_i, phi_j, ts_link) ==
    LET turns == (phi_i - phi_j) \div PhaseUnits
    IN  IF ts_link
        THEN CASE turns = 0 -> -SinResidue
               [] turns = 1 -> SinResidue
               [] OTHER -> -3 * SinResidue
        ELSE -2 * SinResidue * turns

\* phi_force of node i in those units.
float_phi_force(sig, ph, i) ==
    IF sig[i] = 1
    THEN LET f == [j \in Nodes |->
                     IF sig[j] = 1
                     THEN LET J_eff == IF is_ts(i, j)
                                       THEN config.J_prime_Wb_ts
                                       ELSE config.J_Wb_normal
                          IN  -((J_eff * float_sin(ph[i], ph[j], is_ts(i, j)))
                                \div Q)
                     ELSE 0]
         IN  SumOver(get_neighbors(i), f)
    ELSE 0

\* phi + delta_phi * phi_force, then % (2 * np.pi): fl(2*pi) plus an
\* increment below half a spacing is fl(2*pi), whose remainder is 0.0; a
\* negative x that small has remainder fl(x + 2*pi) = fl(2*pi).  -1 stands
\* for a double that is neither 0.0 nor fl(2*pi).
float_normalize(phase, force) ==
    LET increment == (StepRadQ * force) \div Q
    IN  IF increment > HalfUlpTwoPi \/ -increment > HalfUlpTwoPi THEN -1
        ELSE IF phase = PhaseUnits \/ increment = 0 THEN 0
        ELSE IF increment < 0 THEN PhaseUnits
        ELSE -1

relax_step_float(sig, ph) ==
    [i \in Nodes |->
       IF sig[i] = 1
       THEN float_normalize(ph[i], float_phi_force(sig, ph, i))
       ELSE ph[i]]

\* Every phase is 0.0 or fl(2*pi).
on_float_grid(ph) == \A n \in Nodes : ph[n] \in {0, PhaseUnits}

RECURSIVE relax_phases_float(_, _, _)
relax_phases_float(sig, ph, num_steps) ==
    IF num_steps = 0 \/ ~on_float_grid(ph) THEN ph
    ELSE relax_phases_float(sig, relax_step_float(sig, ph), num_steps - 1)

\* A direct call relax_phases(model, num_steps).
RelaxPhasesFloat ==
    /\ Idle
    /\ \E num_steps \in 1 .. MaxRelaxSteps :
          /\ on_float_grid(relax_phases_float(sigma, phi, num_steps))
          /\ phi' = relax_phases_float(sigma, phi, num_steps)
    /\ last' = OpRecord("relax_phases")
    /\ trace' = <<>>
    /\ prior_sigma' = <<>>
    /\ UNCHANGED <<graph, config, sigma, N_pot, N_pot_max, rho, g_eff, pc,
                   tick, perm, pos, sweeps_left, flips>>
    /\ UNCHANGED run

\* step_simulation after the sweep returned: relax_phases with
\* num_relax_steps.
StepSimulationRelaxFloat ==
    /\ tick = "relax"
    /\ pc = "idle"
    /\ on_float_grid(relax_phases_float(sigma, phi, DefaultRelaxSteps))
    /\ phi' = relax_phases_float(sigma, phi, DefaultRelaxSteps)
    /\ tick' = "none"
    /\ trace' = Append(trace, "relax_phases")
    /\ last' = OpRecord("step_simulation")
    /\ UNCHANGED <<graph, config, sigma, N_pot, N_pot_max, rho, g_eff, pc,
                   perm, pos, sweeps_left, flips, prior_sigma>>
    /\ UNCHANGED run

(***************************************************************************)
(* WBModel.update_N_pot called directly                                    *)
(***************************************************************************)
\* The costs a caller passes: a refund (negative), a small and a large cost.
SignedCosts == {-50, 10, 400}

\* A direct call model.update_N_pot(cost) on a reservoir in [0, N_pot_max].
UpdateNPot ==
    /\ Idle
    /\ 0 <= N_pot /\ N_pot <= N_pot_max
    /\ \E cost \in SignedCosts : N_pot' = update_N_pot(N_pot, cost)
    /\ last' = OpRecord("update_N_pot")
    /\ trace' = <<>>
    /\ prior_sigma' = <<>>
    /\ UNCHANGED <<graph, config, sigma, phi, N_pot_max, rho, g_eff, pc, tick,
                   perm, pos, sweeps_left, flips>>
    /\ UNCHANGED run

(***************************************************************************)
(* compute_g_eff (src/core/metric_effective.py)                            *)
(***************************************************************************)
\* The parameter tuples (alpha, n, beta, eps0, m, p) the callers pass.
GEffParams == {[alpha |-> 100, n |-> 1, beta |-> 100, eps0 |-> 10,
                m |-> 1, p |-> 1]}

\* grad2 of node i: the sum over its neighbours of (rho_i - rho_j)^2.
grad2_of(r, i) ==
    LET sq == [j \in Nodes |-> ((r[i] - r[j]) * (r[i] - r[j])) \div Q]
    IN  SumOver(get_neighbors(i), sq)

\* Variant of compute_g_eff: the isotropic weights are added to those of
\* the previous call instead of replacing them.
compute_g_eff_accumulating(r, pr) ==
    LET eps2 == (pr.eps0 * pr.eps0) \div Q
    IN  [stored |-> TRUE,
         iso |-> [i \in Nodes |->
                    (IF g_eff.stored THEN g_eff.iso[i] ELSE 0)
                    + (Q * Q) \div (Q + (pr.alpha * PowQ(r[i], pr.n)) \div Q)],
         aniso |-> [i \in Nodes |->
                      (pr.beta * grad2_of(r, i)) \div Q
                      + (((eps2 * PowQ(r[i], pr.m)) \div Q)
                         * PowQ(grad2_of(r, i), pr.p)) \div Q],
         T |-> [e \in {<<i, j>> : i \in Nodes, j \in Nodes} |->
                  IF e[2] \in get_neighbors(e[1])
                  THEN ((((r[e[1]] - r[e[2]]) * (r[e[1]] - r[e[2]])) \div Q)
                        * Q) \div (grad2_of(r, e[1]) + eps2)
                  ELSE 0]]

\* The three weight tables compute_g_eff stores, built from scratch.
compute_g_eff(r, pr) ==
    LET eps2 == (pr.eps0 * pr.eps0) \div Q
    IN  [stored |-> TRUE,
         iso |-> [i \in Nodes |->
                    (Q * Q) \div (Q + (pr.alpha * PowQ(r[i], pr.n)) \div Q)],
         aniso |-> [i \in Nodes |->
                      (pr.beta * grad2_of(r, i)) \div Q
                      + (((eps2 * PowQ(r[i], pr.m)) \div Q)
                         * PowQ(grad2_of(r, i), pr.p)) \div Q],
         T |-> [e \in {<<i, j>> : i \in Nodes, j \in Nodes} |->
                  IF e[2] \in get_neighbors(e[1])
                  THEN ((((r[e[1]] - r[e[2]]) * (r[e[1]] - r[e[2]])) \div Q)
                        * Q) \div (grad2_of(r, e[1]) + eps2)
                  ELSE 0]]

\* A call compute_g_eff(model, alpha, n, beta, eps0, m, p).
ComputeGEff ==
    /\ Idle
    /\ \E pr \in GEffParams : g_eff' = compute_g_eff(rho, pr)
    /\ last' = OpRecord("compute_g_eff")
    /\ trace' = <<>>
    /\ prior_sigma' = <<>>
    /\ UNCHANGED <<graph, config, sigma, phi, N_pot, N_pot_max, rho, pc, tick,
                   perm, pos, sweeps_left, flips>>
    /\ UNCHANGED run

(***************************************************************************)
(* next_twist_step, update_phase_and_rho (src/core/phase_dynamics.py)      *)
(***************************************************************************)
\* The coefficients (c2, c3) the callers pass, in radians times Q.
TwistCoefficients == {[c2 |-> 100, c3 |-> 200]}

\* An angle in radians (times Q) on the phase grid.
RadToGrid(x) == (x * PhaseUnits) \div (2 * PiQ)

\* np.angle(np.exp(1j * phi)): the argument in (-pi, pi], in grid units.
angle_of(k) == IF k % PhaseUnits > PhaseUnits \div 2
               THEN (k % PhaseUnits) - PhaseUnits
               ELSE k % PhaseUnits

\* Variant of coherence2: the squared real part of exp(1j * phi) alone
\* instead of the squared modulus.
coherence2_real_part(k) == (CosQ(k) * CosQ(k)) \div Q

\* np.abs(np.exp(1j * phi)) ** 2, times Q.
coherence2(k) == (CosQ(k) * CosQ(k) + SinQ(k) * SinQ(k)) \div Q

\* The weight of neighbour j for node i: w_iso + w_aniso.
twist_weight(ge, i, j) == ge.iso[i] + (ge.aniso[i] * ge.T[<<i, j>>]) \div Q

\* next_twist_step raises for node i: the weight tables are missing, the
\* node has no neighbour (random.choices on an empty list), or the weights
\* sum to zero.
twist_fails(ge, i) ==
    \/ ~ge.stored
    \/ get_neighbors(i) = {}
    \/ \A j \in get_neighbors(i) : twist_weight(ge, i, j) = 0

\* The neighbours next_twist_step can return for node i.
next_twist_step(ge, i) ==
    {j \in get_neighbors(i) : twist_weight(ge, i, j) > 0}

\* The new phase of node i when the first loop drew neighbour j.
twist_phase(ph, r, c, i, j) ==
    LET grad2 == ((r[i] - r[j]) * (r[i] - r[j])) \div Q
        Omega == (c.c3 * r[i]) \div Q + (c.c2 * grad2) \div Q
    IN  (angle_of(ph[j]) + RadToGrid(Omega)) % PhaseUnits

\* Variant of twist_rho: the coherence term is not scaled by 0.3.
twist_rho_unscaled(sig, new_phi, i, j) ==
    (IF sig[i] = -1 THEN 10 ELSE 60) + coherence2(new_phi[j])

\* The new density of node i when the second loop drew neighbour j.
twist_rho(sig, new_phi, i, j) ==
    (IF sig[i] = -1 THEN 10 ELSE 60) + (30 * coherence2(new_phi[j])) \div Q

\* Variant of UpdatePhaseAndRho: the first loop writes every new phase to
\* the model at once, so a node processed later reads the new phases of the
\* nodes processed before it.
UpdatePhaseAndRho_in_place ==
    /\ Idle
    /\ IF \E i \in Nodes : twist_fails(g_eff, i)
       THEN /\ last' = OpRecord("update_phase_and_rho_error")
            /\ UNCHANGED <<phi, rho>>
       ELSE /\ \E c \in TwistCoefficients :
               \E j1 \in [Nodes -> Nodes], j2 \in [Nodes -> Nodes] :
                  /\ \A i \in Nodes : /\ j1[i] \in next_twist_step(g_eff, i)
                                      /\ j2[i] \in next_twist_step(g_eff, i)
                  /\ LET RECURSIVE written(_)
                         written(i) ==
                             twist_phase([n \in Nodes |->
                                            IF n < i THEN written(n)
                                            ELSE phi[n]],
                                         rho, c, i, j1[i])
                         new_phi == [i \in Nodes |-> written(i)]
                     IN  /\ phi' = new_phi
                         /\ rho' = [i \in Nodes |->
                                      twist_rho(sigma, new_phi, i, j2[i])]
            /\ last' = OpRecord("update_phase_and_rho")
    /\ trace' = <<>>
    /\ prior_sigma' = <<>>
    /\ UNCHANGED <<graph, config, sigma, N_pot, N_pot_max, g_eff, pc, tick,
                   perm, pos, sweeps_left, flips>>
    /\ UNCHANGED run

\* A call update_phase_and_rho(model, c2, c3): both loops draw a neighbour
\* for every node; the fields are written after the loops.  When
\* next_twist_step raises, the call ends in the first loop with nothing
\* written.
UpdatePhaseAndRho ==
    /\ Idle
    /\ IF \E i \in Nodes : twist_fails(g_eff, i)
       THEN /\ last' = OpRecord("update_phase_and_rho_error")
            /\ UNCHANGED <<phi, rho>>
       ELSE /\ \E c \in TwistCoefficients :
               \E j1 \in [Nodes -> Nodes], j2 \in [Nodes -> Nodes] :
                  /\ \A i \in Nodes : /\ j1[i] \in next_twist_step(g_eff, i)
                                      /\ j2[i] \in next_twist_step(g_eff, i)
                  /\ LET new_phi == [i \in Nodes |->
                                       twist_phase(phi, rho, c, i, j1[i])]
                     IN  /\ phi' = new_phi
                         /\ rho' = [i \in Nodes |->
                                      twist_rho(sigma, new_phi, i, j2[i])]
            /\ last' = OpRecord("update_phase_and_rho")
    /\ trace' = <<>>
    /\ prior_sigma' = <<>>
    /\ UNCHANGED <<graph, config, sigma, N_pot, N_pot_max, g_eff, pc, tick,
                   perm, pos, sweeps_left, flips>>
    /\ UNCHANGED run

\* Variant of FindSolitonClusters: the members of the clusters found are
\* deactivated.
FindSolitonClusters_dissolving ==
    /\ Idle
    /\ \E threshold \in SolitonThresholds :
          /\ last' = [OpRecord("find_soliton_clusters") EXCEPT
                         !.clusters = cluster_list(rho, threshold, {}, 0)]
          /\ sigma' = [n \in Nodes |->
                         IF n \in UNION find_soliton_clusters(rho, threshold)
                         THEN -1 ELSE sigma[n]]
    /\ trace' = <<>>
    /\ prior_sigma' = <<>>
    /\ UNCHANGED <<graph, config, phi, N_pot, N_pot_max, rho, g_eff, pc,
                   tick, perm, pos, sweeps_left, flips>>
    /\ UNCHANGED run

\* A call find_soliton_clusters(model.graph, model.rho, threshold).
FindSolitonClusters ==
    /\ Idle
    /\ \E threshold \in SolitonThresholds :
          last' = [OpRecord("find_soliton_clusters") EXCEPT
                      !.clusters = cluster_list(rho, threshold, {}, 0)]
    /\ trace' = <<>>
    /\ prior_sigma' = <<>>
    /\ UNCHANGED <<graph, config, sigma, phi, N_pot, N_pot_max, rho, g_eff,
                   pc, tick, perm, pos, sweeps_left, flips>>
    /\ UNCHANGED run

Next ==
    \/ MetropolisStep
    \/ MonteCarloSweep
    \/ SweepStep
    \/ RelaxPhases
    \/ StepSimulation
    \/ StepSimulationRelax

Spec == Init /\ [][Next]_vars

(***************************************************************************)
(* The reservoir operation on its own: models built with every fill        *)
(* fraction of [0, 1] (in tenths), then direct calls of update_N_pot.      *)
(***************************************************************************)
FillFractions == {10 * k : k \in 0 .. 10}

InitAcc ==
    /\ \E f \in FillFractions, sc \in SigmaConfigs :
          Construct(GraphPathTS,
                    [BaseConfig EXCEPT !.N_pot_initial_fraction = f],
                    sc, "uniform_zero")
    /\ rho = AttachedRho

NextAcc == UpdateNPot

SpecAcc == InitAcc /\ [][NextAcc]_vars

(***************************************************************************)
(* The engine with the metric, propagation and cluster operations a caller *)
(* can run between ticks.                                                  *)
(***************************************************************************)
InitOps ==
    /\ \E sc \in {"all_P", "center_A"} :
          Construct(GraphPathTS, ConfigHalf, sc, "uniform_zero")
    /\ rho = AttachedRho

NextOps ==
    \/ MonteCarloSweep
    \/ SweepStep
    \/ RelaxPhases
    \/ StepSimulation
    \/ StepSimulationRelax
    \/ ComputeGEff
    \/ UpdatePhaseAndRho
    \/ FindSolitonClusters

SpecOps == InitOps /\ [][NextOps]_vars

(***************************************************************************)
(* The engine in double arithmetic around phase 0: uniform-zero phases, a  *)
(* negative TS coupling and the default relaxation step of 0.1 rad.        *)
(***************************************************************************)
ConfigAnti == [BaseConfig EXCEPT !.J_prime_Wb_ts = -100,
                                 !.delta_phi_relaxation_step = 6]

InitFloat ==
    /\ \E sc \in SigmaConfigs :
          Construct(GraphPathTS, ConfigAnti, sc, "uniform_zero")
    /\ rho = AttachedRho

NextFloat ==
    \/ MonteCarloSweep
    \/ SweepStep
    \/ RelaxPhasesFloat
    \/ StepSimulation
    \/ StepSimulationRelaxFloat

SpecFloat == InitFloat /\ [][NextFloat]_vars

(***************************************************************************)
(* The engine on a graph with a node that has no edge, with the metric and *)
(* the propagation a caller can run between ticks.                         *)
(***************************************************************************)
InitIso ==
    /\ \E c \in {BaseConfig, ConfigHalf}, sc \in SigmaConfigs,
          pcfg \in PhiConfigs :
          Construct(GraphIsolated, c, sc, pcfg)
    /\ rho = AttachedRho

NextIso ==
    \/ MonteCarloSweep
    \/ SweepStep
    \/ RelaxPhases
    \/ StepSimulation
    \/ StepSimulationRelax
    \/ ComputeGEff
    \/ UpdatePhaseAndRho

SpecIso == InitIso /\ [][NextIso]_vars

(***************************************************************************)
(* The scenario of one tick on a path graph without TS link: every node    *)
(* inactive, a reservoir maximum of 10.0 per node filled to 80%, a         *)
(* temperature at which every draw accepts, and an activation cost of      *)
(* 0.1 (the default), 8, 10 or 20.                                          *)
(***************************************************************************)
ActivationCosts == {10, 800, 1000, 2000}

ConfigScenario(cost) ==
    [BaseConfig EXCEPT !.N_pot_max_sites_factor = 1000,
                       !.N_pot_initial_fraction = 80,
                       !.T_eff = 10000,
                       !.delta_Npot_base_actualisation = cost]

InitScenario ==
    /\ \E cost \in ActivationCosts, pcfg \in PhiConfigs :
          Construct(GraphPath, ConfigScenario(cost), "all_P", pcfg)
    /\ rho = AttachedRho

\* The one tick of the scenario, from the state after construction.
ScenarioTick == last.op = "init" /\ StepSimulation

NextScenario ==
    \/ ScenarioTick
    \/ SweepStep
    \/ StepSimulationRelax

SpecScenario == InitScenario /\ [][NextScenario]_vars

(***************************************************************************)
(* Loading a configuration and starting a run (src/main.py load_config,    *)
(* WBModel.__init__, initialize_fields).  A dict is the set of its         *)
(* <<key, value>> pairs.                                                    *)
(***************************************************************************)
\* The defaults of WBModel.config (delta_phi_relaxation_step 0.1 rad is 6
\* hundredths of a grid unit).
DefaultConfig == [E0 |-> 0, DeltaE |-> 10, J_Wb_normal |-> 100,
                  J_prime_Wb_ts |-> 100, T_eff |-> 10, V0_base |-> 50,
                  N_pot_max_sites_factor |-> 1000,
                  N_pot_initial_fraction |-> 90,
                  eta1 |-> 1, eta2 |-> 1, alpha_phase |-> 50,
                  beta_asym |-> 200,
                  delta_Npot_base_actualisation |-> 10,
                  delta_phi_relaxation_step |-> 6]

\* The configuration files given to load_config: kind tells whether the
\* file can be opened and parsed, model_parameters is the section the file
\* holds (or would hold, were it well formed).
ConfigFiles ==
    {[kind |-> "json", model_parameters |-> {}],
     [kind |-> "json", model_parameters |-> {<<"T_eff", 100>>}],
     [kind |-> "json",
      model_parameters |-> {<<"N_pot_max_sites_factor", 100>>,
                            <<"N_pot_initial_fraction", 50>>}],
     [kind |-> "json",
      model_parameters |-> {<<"delta_Npot_base_actualisation", 100>>,
                            <<"DeltaE", 20>>}],
     [kind |-> "malformed", model_parameters |-> {<<"T_eff", 100>>}],
     [kind |-> "unreadable", model_parameters |-> {}]}

\* Variant of load_config: an exception of open or json.load is raised to
\* the caller.
load_config_raising(file) ==
    IF file.kind = "json"
    THEN [raised |-> FALSE, excepted |-> FALSE,
          model_parameters |-> file.model_parameters]
    ELSE [raised |-> TRUE, excepted |-> TRUE, model_parameters |-> {}]

\* load_config(config_file): the parsed dict, or, when open or json.load
\* raised, the empty dict after the messages of the except branch (the
\* model_parameters section of {} is {}).  It never raises.
load_config(file) ==
    IF file.kind = "json"
    THEN [raised |-> FALSE, excepted |-> FALSE,
          model_parameters |-> file.model_parameters]
    ELSE [raised |-> FALSE, excepted |-> TRUE, model_parameters |-> {}]

\* self.config after self.config.update(config): the defaults, each
\* replaced by the supplied value when the supplied dict has the key.
wb_config(supplied) ==
    [k \in DOMAIN DefaultConfig \cup {p[1] : p \in supplied} |->
        IF \E p \in supplied : p[1] = k
        THEN (CHOOSE p \in supplied : p[1] = k)[2]
        ELSE DefaultConfig[k]]

\* main() loads the configuration: an exception leaving load_config would
\* end the run; otherwise the model_parameters section is kept for the
\* model.
LoadConfig ==
    /\ pc = "load"
    /\ \E file \in ConfigFiles :
          LET loaded == load_config(file)
          IN  /\ config' = loaded.model_parameters
              /\ pc' = IF loaded.raised THEN "stopped" ELSE "loaded"
              /\ last' = OpRecord(IF loaded.excepted THEN "load_config_error"
                                  ELSE "load_config")
    /\ UNCHANGED <<graph, sigma, phi, N_pot, N_pot_max, rho, g_eff, tick,
                   perm, pos, sweeps_left, flips, trace, prior_sigma>>
    /\ UNCHANGED run

\* WBModel(graph, model_params): the configuration, the empty fields and
\* the reservoir.
CreateModel ==
    /\ pc = "loaded"
    /\ config' = wb_config(config)
    /\ N_pot_max' = NumNodes * wb_config(config).N_pot_max_sites_factor
    /\ N_pot' = (NumNodes * wb_config(config).N_pot_max_sites_factor
                 * wb_config(config).N_pot_initial_fraction) \div Q
    /\ pc' = "created"
    /\ last' = OpRecord("create_model")
    /\ UNCHANGED <<graph, sigma, phi, rho, g_eff, tick, perm, pos,
                   sweeps_left, flips, trace, prior_sigma>>
    /\ UNCHANGED run

\* main() calls model.initialize_fields(mode = ..., phi_config = ...):
\* initialize_fields has no parameter mode, the call raises TypeError and
\* the run ends with the fields empty.
MainInitializeFields ==
    /\ pc = "created"
    /\ pc' = "stopped"
    /\ last' = OpRecord("initialize_fields_error")
    /\ UNCHANGED <<graph, config, sigma, phi, N_pot, N_pot_max, rho, g_eff,
                   tick, perm, pos, sweeps_left, flips, trace, prior_sigma>>
    /\ UNCHANGED run

\* The record of a call initialize_fields(sigma_config, phi_config): it
\* keeps the two patterns.
InitRecord(sc, pcfg) ==
    [op |-> "init", node |-> -1, did_flip |-> FALSE, can_afford |-> FALSE,
     u |-> -1, flips |-> 0, clusters |-> <<>>, args |-> <<sc, pcfg>>]

\* A caller's model.initialize_fields(sigma_config, phi_config): the
\* engine can run from here.
InitializeFields ==
    /\ pc = "created"
    /\ \E sc \in SigmaConfigs, pcfg \in PhiConfigs :
          /\ sigma' \in initial_sigma(sc)
          /\ phi' \in initial_phi(pcfg) \cap PhaseInputs
          /\ last' = InitRecord(sc, pcfg)
    /\ pc' = "idle"
    /\ UNCHANGED <<graph, config, N_pot, N_pot_max, rho, g_eff, tick, perm,
                   pos, sweeps_left, flips, trace, prior_sigma>>
    /\ UNCHANGED run

\* Before main() has loaded anything: no model, no configuration.  No
\* statement of WBModel creates a density field: rho has no entry until a
\* caller attaches one.
InitConfig ==
    /\ graph = GraphPathTS
    /\ config = {}
    /\ N_pot_max = 0
    /\ N_pot = 0
    /\ sigma = <<>>
    /\ phi = <<>>
    /\ rho = <<>>
    /\ g_eff = [stored |-> FALSE]
    /\ pc = "load"
    /\ tick = "none"
    /\ perm = <<>>
    /\ pos = 0
    /\ sweeps_left = 0
    /\ flips = 0
    /\ trace = <<>>
    /\ prior_sigma = <<>>
    /\ last = OpRecord("start")
    /\ run = NoRun

NextConfig ==
    \/ LoadConfig
    \/ CreateModel
    \/ MainInitializeFields
    \/ InitializeFields
    \/ ScenarioTick
    \/ SweepStep
    \/ StepSimulationRelax

SpecConfig == InitConfig /\ [][NextConfig]_vars

(***************************************************************************)
(* run_simulation (src/core/dynamics.py): the loop over the ticks, the     *)
(* history it returns and the callback.                                    *)
(***************************************************************************)
MaxSteps == 2

\* The keys of the dict step_simulation returns, with the key "step"
\* run_simulation adds.
StatsKeys == {"flips", "energy_delta", "acceptance_ratio", "coherence",
              "num_active", "N_pot", "step"}

\* Variant of run_record: the step index is counted from 1.
run_record_one_based(sig, np, step) ==
    [keys |-> StatsKeys, step |-> step + 1, N_pot |-> np,
     num_active |-> count_active_nodes(sig)]

\* The stats of a tick as run_simulation appends them: the keys of the
\* dict, and the values of "step", "N_pot" and "num_active" (the values of
\* the sweep statistics and of the coherence are not modelled).
run_record(sig, np, step) ==
    [keys |-> StatsKeys, step |-> step, N_pot |-> np,
     num_active |-> count_active_nodes(sig)]

\* The loop of run_simulation stands before an iteration (or its end).
AtLoopHead == last.op \in {"run_simulation_begin", "run_callback"}

\* A call run_simulation(model, num_steps, callback = ...): the history is
\* empty, the loop is about to start.
RunSimulation ==
    /\ Idle
    /\ run = NoRun
    /\ \E num_steps \in 0 .. MaxSteps, callback \in BOOLEAN :
          run' = [active |-> TRUE, num_steps |-> num_steps, step |-> 0,
                  callback |-> callback, history |-> <<>>, calls |-> <<>>]
    /\ last' = OpRecord("run_simulation_begin")
    /\ trace' = <<>>
    /\ prior_sigma' = <<>>
    /\ UNCHANGED <<graph, config, sigma, phi, N_pot, N_pot_max, rho, g_eff,
                   pc, tick, perm, pos, sweeps_left, flips>>

\* for step in range(num_steps): the iteration calls step_simulation.
RunTick ==
    /\ run.active
    /\ AtLoopHead
    /\ run.step < run.num_steps
    /\ StepSimulation

\* step_simulation has returned: stats["step"] = step, the stats are
\* appended to the history, the callback (when given) is called with the
\* model, the step and the stats, and the loop goes to the next index.
RunRecord ==
    /\ run.active
    /\ Idle
    /\ last.op = "step_simulation"
    /\ run' = [run EXCEPT
                 !.history = Append(@, run_record(sigma, N_pot, run.step)),
                 !.calls = IF run.callback THEN Append(@, run.step) ELSE @,
                 !.step = @ + 1]
    /\ last' = OpRecord("run_callback")
    /\ UNCHANGED <<graph, config, sigma, phi, N_pot, N_pot_max, rho, g_eff,
                   pc, tick, perm, pos, sweeps_left, flips, trace,
                   prior_sigma>>

\* The loop is exhausted: run_simulation returns the history.
RunReturn ==
    /\ run.active
    /\ AtLoopHead
    /\ run.step >= run.num_steps
    /\ run' = [run EXCEPT !.active = FALSE]
    /\ last' = OpRecord("run_simulation")
    /\ UNCHANGED <<graph, config, sigma, phi, N_pot, N_pot_max, rho, g_eff,
                   pc, tick, perm, pos, sweeps_left, flips, trace,
                   prior_sigma>>

InitRun ==
    /\ \E c \in {BaseConfig, ConfigHalf}, sc \in {"all_P", "center_A"} :
          Construct(GraphPathTS, c, sc, "uniform_zero")
    /\ rho = AttachedRho

NextRun ==
    \/ RunSimulation
    \/ RunTick
    \/ SweepStep
    \/ StepSimulationRelax
    \/ RunRecord
    \/ RunReturn

\* The interpreter keeps executing the call: a step that can be taken is
\* taken.
SpecRun == InitRun /\ [][NextRun]_vars /\ WF_vars(NextRun)

(***************************************************************************)
(* The two topology providers: core/graph_rp2.py (hexagonal patch with     *)
(* antipodal identification) and core/rp2_graph.py (hexagonal lattice with *)
(* a random fraction of its links flagged TS).  Here the variable graph    *)
(* holds the provider's parameters and the graph under construction:       *)
(* a link is the set of its end nodes (a self-loop is a singleton), ts the *)
(* links whose is_ts attribute is True, antipode the antipode_map.         *)
(***************************************************************************)
MaxRadius == 2

MaxTsLinks == 3

\* ts_links_fraction of rp2_graph.RP2Graph, in hundredths.
TsLinkFractions == {0, 5, 10, 25}

Abs(x) == IF x < 0 THEN -x ELSE x

\* The coordinates of the patch of a radius: |x| + |y| + |x + y| <= 2 * radius
\* (the same set as rp2_graph's ranges of q and r).
hex_coords(radius) ==
    {c \in (-radius .. radius) \X (-radius .. radius) :
        Abs(c[1]) + Abs(c[2]) + Abs(c[1] + c[2]) <= 2 * radius}

\* The index a coordinate gets: nodes are numbered in the order of the two
\* nested loops.
node_index(radius, c) ==
    Cardinality({d \in hex_coords(radius) :
                    d[1] < c[1] \/ (d[1] = c[1] /\ d[2] < c[2])})

\* The six lattice neighbours of a coordinate.
hex_neighbors(c) ==
    {<<c[1] + 1, c[2]>>, <<c[1] - 1, c[2]>>, <<c[1], c[2] + 1>>,
     <<c[1], c[2] - 1>>, <<c[1] + 1, c[2] - 1>>, <<c[1] - 1, c[2] + 1>>}

\* The links between adjacent nodes of the patch, all with is_ts = False.
lattice_edges(radius) ==
    {{node_index(radius, p[1]), node_index(radius, p[2])} :
        p \in {q \in hex_coords(radius) \X hex_coords(radius) :
                  q[2] \in hex_neighbors(q[1])}}

\* The subsets of S with k elements.
RECURSIVE KSubsets(_, _)
KSubsets(S, k) ==
    IF k = 0 THEN {{}}
    ELSE IF S = {} THEN {}
    ELSE LET x == CHOOSE y \in S : TRUE
         IN  {T \cup {x} : T \in KSubsets(S \ {x}, k - 1)}
             \cup KSubsets(S \ {x}, k)

\* ts_count = int(total_edges * ts_links_fraction)
ts_count(radius, fraction) ==
    (Cardinality(lattice_edges(radius)) * fraction) \div 100

\* A provider object before its graph is built.
NewGraph(impl, radius, fraction) ==
    [impl |-> impl, radius |-> radius, ts_links_fraction |-> fraction,
     nodes |-> {}, edges |-> {}, ts |-> {}, antipode |-> <<>>, cursor |-> 0]

InitGraph ==
    /\ \E radius \in 0 .. MaxRadius :
          \/ graph = NewGraph("graph_rp2", radius, 0)
          \/ \E fraction \in TsLinkFractions :
                /\ ts_count(radius, fraction) <= MaxTsLinks
                /\ graph = NewGraph("rp2_graph", radius, fraction)
    /\ config = BaseConfig
    /\ N_pot_max = 0
    /\ N_pot = 0
    /\ sigma = <<>>
    /\ phi = <<>>
    /\ rho = <<>>
    /\ g_eff = [stored |-> FALSE]
    /\ pc = "new"
    /\ tick = "none"
    /\ perm = <<>>
    /\ pos = 0
    /\ sweeps_left = 0
    /\ flips = 0
    /\ trace = <<>>
    /\ prior_sigma = <<>>
    /\ last = OpRecord("start")
    /\ run = NoRun

\* graph_rp2._generate_hexagonal_patch and
\* rp2_graph._create_hexagonal_lattice: the nodes and the lattice links.
GenerateHexagonalPatch ==
    /\ pc = "new"
    /\ graph' = [graph EXCEPT
                   !.nodes = {node_index(graph.radius, c) :
                                c \in hex_coords(graph.radius)},
                   !.edges = lattice_edges(graph.radius)]
    /\ pc' = "patch"
    /\ last' = OpRecord("generate_patch")
    /\ UNCHANGED <<config, sigma, phi, N_pot, N_pot_max, rho, g_eff, tick,
                   perm, pos, sweeps_left, flips, trace, prior_sigma, run>>

\* Variant of ts_link_needed: the TS link is added for every node.
ts_link_always(edges, node_idx, antipode_idx) == TRUE

\* if node_idx != antipode_idx and not has_edge(node_idx, antipode_idx)
ts_link_needed(edges, node_idx, antipode_idx) ==
    node_idx # antipode_idx /\ {node_idx, antipode_idx} \notin edges

\* One iteration of the loop of graph_rp2._apply_antipodal_identification,
\* for the node at the cursor: the antipode (-x, -y) is in the patch, both
\* nodes are entered in antipode_map and the TS link is added when needed;
\* after the last node generate returns.
ApplyAntipodalIdentification ==
    /\ pc = "patch"
    /\ graph.impl = "graph_rp2"
    /\ graph.cursor < Cardinality(graph.nodes)
    /\ \E c \in hex_coords(graph.radius) :
          /\ node_index(graph.radius, c) = graph.cursor
          /\ LET node_idx == graph.cursor
                 antipode_idx == node_index(graph.radius, <<-c[1], -c[2]>>)
                 link == ts_link_needed(graph.edges, node_idx, antipode_idx)
             IN  graph' = [graph EXCEPT
                    !.antipode =
                        [n \in DOMAIN graph.antipode
                               \cup {node_idx, antipode_idx} |->
                            IF n = node_idx THEN antipode_idx
                            ELSE IF n = antipode_idx THEN node_idx
                            ELSE graph.antipode[n]],
                    !.edges = IF link THEN @ \cup {{node_idx, antipode_idx}}
                              ELSE @,
                    !.ts = IF link THEN @ \cup {{node_idx, antipode_idx}}
                           ELSE @,
                    !.cursor = @ + 1]
    /\ pc' = IF graph.cursor + 1 = Cardinality(graph.nodes) THEN "done"
             ELSE "patch"
    /\ last' = OpRecord(IF graph.cursor + 1 = Cardinality(graph.nodes)
                        THEN "generate" ELSE "identify")
    /\ UNCHANGED <<config, sigma, phi, N_pot, N_pot_max, rho, g_eff, tick,
                   perm, pos, sweeps_left, flips, trace, prior_sigma, run>>

\* rp2_graph._add_ts_links: the links are shuffled and the first ts_count
\* of them flagged TS; the constructor returns.
AddTsLinks ==
    /\ pc = "patch"
    /\ graph.impl = "rp2_graph"
    /\ \E flagged \in KSubsets(graph.edges,
                               ts_count(graph.radius,
                                        graph.ts_links_fraction)) :
          graph' = [graph EXCEPT !.ts = flagged]
    /\ pc' = "done"
    /\ last' = OpRecord("generate")
    /\ UNCHANGED <<config, sigma, phi, N_pot, N_pot_max, rho, g_eff, tick,
                   perm, pos, sweeps_left, flips, trace, prior_sigma, run>>

NextGraph ==
    \/ GenerateHexagonalPatch
    \/ ApplyAntipodalIdentification
    \/ AddTsLinks

SpecGraph == InitGraph /\ [][NextGraph]_vars

(***************************************************************************)
(* Direct calls of the energy and barrier functions of WBModel between     *)
(* ticks: the record of such a call keeps its arguments and the value it   *)
(* returned.                                                               *)
(***************************************************************************)
QueryRecord(op, args, value) ==
    [op |-> op, node |-> args[1], did_flip |-> FALSE, can_afford |-> FALSE,
     u |-> -1, flips |-> 0, clusters |-> <<>>, args |-> args,
     value |-> value]

QueryOps == {"calculate_interaction_energy", "calculate_node_energy",
             "calculate_barrier_cost", "can_afford_transition"}

\* A call model.calculate_interaction_energy(node1, node2).
CalculateInteractionEnergy ==
    /\ Idle
    /\ \E node1 \in Nodes, node2 \in Nodes :
          last' = QueryRecord("calculate_interaction_energy",
                              <<node1, node2>>,
                              calculate_interaction_energy(sigma, phi,
                                                           node1, node2))
    /\ trace' = <<>>
    /\ prior_sigma' = <<>>
    /\ UNCHANGED <<graph, config, sigma, phi, N_pot, N_pot_max, rho, g_eff,
                   pc, tick, perm, pos, sweeps_left, flips, run>>

\* A call model.calculate_node_energy(node).
CalculateNodeEnergy ==
    /\ Idle
    /\ \E node \in Nodes :
          last' = QueryRecord("calculate_node_energy", <<node>>,
                              calculate_node_energy(sigma, phi, N_pot, node))
    /\ trace' = <<>>
    /\ prior_sigma' = <<>>
    /\ UNCHANGED <<graph, config, sigma, phi, N_pot, N_pot_max, rho, g_eff,
                   pc, tick, perm, pos, sweeps_left, flips, run>>

\* A call model.calculate_barrier_cost(node, proposed_sigma).
CalculateBarrierCost ==
    /\ Idle
    /\ \E node \in Nodes, proposed_sigma \in Spins :
          last' = QueryRecord("calculate_barrier_cost",
                              <<node, proposed_sigma>>,
                              calculate_barrier_cost(sigma, phi, N_pot, node,
                                                     proposed_sigma))
    /\ trace' = <<>>
    /\ prior_sigma' = <<>>
    /\ UNCHANGED <<graph, config, sigma, phi, N_pot, N_pot_max, rho, g_eff,
                   pc, tick, perm, pos, sweeps_left, flips, run>>

\* Variant of CanAffordTransition: the call reserves the cost it computed
\* in the reservoir.
CanAffordTransition_reserving ==
    /\ Idle
    /\ \E node \in Nodes, proposed_sigma \in Spins :
          LET aff == can_afford_transition(sigma, phi, N_pot, node,
                                           proposed_sigma)
          IN  /\ last' = QueryRecord("can_afford_transition",
                                     <<node, proposed_sigma>>, aff)
              /\ N_pot' = IF aff.can_afford
                          THEN update_N_pot(N_pot, aff.cost) ELSE N_pot
    /\ trace' = <<>>
    /\ prior_sigma' = <<>>
    /\ UNCHANGED <<graph, config, sigma, phi, N_pot_max, rho, g_eff,
                   pc, tick, perm, pos, sweeps_left, flips, run>>

\* A call model.can_afford_transition(node, proposed_sigma).
CanAffordTransition ==
    /\ Idle
    /\ \E node \in Nodes, proposed_sigma \in Spins :
          last' = QueryRecord("can_afford_transition",
                              <<node, proposed_sigma>>,
                              can_afford_transition(sigma, phi, N_pot, node,
                                                    proposed_sigma))
    /\ trace' = <<>>
    /\ prior_sigma' = <<>>
    /\ UNCHANGED <<graph, config, sigma, phi, N_pot, N_pot_max, rho, g_eff,
                   pc, tick, perm, pos, sweeps_left, flips, run>>

\* The engine with the energy and barrier functions called between ticks.
InitPure ==
    /\ \E sc \in {"all_P", "center_A"}, pcfg \in PhiConfigs :
          Construct(GraphPathTS, ConfigHalf, sc, pcfg)
    /\ rho = AttachedRho

NextPure ==
    \/ StepSimulation
    \/ SweepStep
    \/ StepSimulationRelax
    \/ CalculateInteractionEnergy
    \/ CalculateNodeEnergy
    \/ CalculateBarrierCost
    \/ CanAffordTransition

SpecPure == InitPure /\ [][NextPure]_vars

(***************************************************************************)
(* The cluster search on its own: models whose density field holds, at     *)
(* every node, a value below, at or above the threshold, on a path graph   *)
(* and on a graph with a node without edge.                                *)
(***************************************************************************)
DensityLevels == {40, 50, 90}

InitClusters ==
    /\ \E g \in {GraphPathTS, GraphIsolated}, sc \in {"all_P", "center_A"} :
          Construct(g, ConfigHalf, sc, "uniform_zero")
    /\ rho \in [Nodes -> DensityLevels]

NextClusters == FindSolitonClusters

SpecClusters == InitClusters /\ [][NextClusters]_vars

(***************************************************************************)
(* The metric and the propagation run on a model, right after its          *)
(* initialisation or after its first tick, from a full and from a          *)
(* half-full reservoir.                                                    *)
(***************************************************************************)
InitDensity ==
    /\ \E c \in {BaseConfig, ConfigHalf}, sc \in {"all_P", "center_A"} :
          Construct(GraphPathTS, c, sc, "uniform_zero")
    /\ rho = AttachedRho

NextDensity ==
    \/ ScenarioTick
    \/ SweepStep
    \/ StepSimulationRelax
    \/ ComputeGEff
    \/ UpdatePhaseAndRho

SpecDensity == InitDensity /\ [][NextDensity]_vars

(***************************************************************************)
(* The sweep on a model whose fields lack entries: a model that was        *)
(* created but not initialised (no entry at all), or whose caller filled   *)
(* the fields for some of the nodes only.                                  *)
(***************************************************************************)
InitMiss ==
    /\ graph = GraphPathTS
    /\ config \in {BaseConfig, ConfigHalf}
    /\ N_pot_max = NumNodes * config.N_pot_max_sites_factor
    /\ N_pot = (NumNodes * config.N_pot_max_sites_factor
                * config.N_pot_initial_fraction) \div Q
    /\ \E present \in (SUBSET Nodes) \ {Nodes} :
          /\ sigma \in [present -> Spins]
          /\ phi = [n \in present |-> 0]
    /\ rho = <<>>
    /\ g_eff = [stored |-> FALSE]
    /\ pc = "idle"
    /\ tick = "none"
    /\ perm = <<>>
    /\ pos = 0
    /\ sweeps_left = 0
    /\ flips = 0
    /\ trace = <<>>
    /\ prior_sigma = <<>>
    /\ last = OpRecord("create_model")
    /\ run = NoRun

NextMiss ==
    \/ MetropolisStep
    \/ MonteCarloSweep
    \/ SweepStep

SpecMiss == InitMiss /\ [][NextMiss]_vars

TypeOK ==
    /\ sigma \in [Nodes -> Spins]
    /\ phi \in [Nodes -> Phases]
    /\ pc \in {"idle", "sweep"}
    /\ tick \in {"none", "mc", "relax"}


(***************************************************************************)
(* Properties                                                              *)
(***************************************************************************)
\* The last operation was a Metropolis proposal on node last.node.
IsProposal == last.op \in {"metropolis_step", "sweep_step", "sweep_return"}

\* delta_energy_total of the proposal metropolis_step makes for node.
proposal_delta(sig, ph, np, node) ==
    metropolis_step(sig, ph, np, node, 0).delta

\* C1: in every reachable state, between any two component steps of any
\* operation, the reservoir satisfies 0 <= N_pot <= N_pot_max.
C1_ReservoirBounded == 0 <= N_pot /\ N_pot <= N_pot_max

\* A sweep inside a tick has just charged the reservoir below one base cost.
C1_Witness ==
    /\ tick = "relax"
    /\ last.did_flip
    /\ N_pot < config.delta_Npot_base_actualisation

\* C2 as stated: update_N_pot clamps on both sides: after a call with any
\* signed cost on a reservoir in [0, N_pot_max], N_pot is in [0, N_pot_max].
C2_ClampsBothSides ==
    last.op = "update_N_pot" => 0 <= N_pot /\ N_pot <= N_pot_max

\* C3 as stated: when a tick (step_simulation) has returned, every sigma is
\* -1 or +1 and every phase lies in [0, 2*pi).
C3_FieldsInRange ==
    last.op = "step_simulation" =>
        /\ \A n \in Nodes : sigma[n] \in {-1, 1}
        /\ \A n \in Nodes : 0 <= phi[n] /\ phi[n] < PhaseUnits

\* C4 as stated: a tick runs six components, in the order vacuum-scale
\* update, transition sweep, effective metric, propagation, cluster
\* accounting, relaxation.
C4_SixComponents ==
    last.op = "step_simulation" =>
        trace = <<"update_vacuum_scale", "monte_carlo_sweep", "compute_g_eff",
                  "update_phase_and_rho", "find_soliton_clusters",
                  "relax_phases">>

\* C4 amended: a tick runs exactly two components, each once and to
\* completion before the next: the transition sweep, then the relaxation.
C4_SweepThenRelax ==
    /\ tick = "mc" => trace = <<"monte_carlo_sweep">>
    /\ tick = "relax" =>
          /\ trace = <<"monte_carlo_sweep">>
          /\ pc = "idle"
          /\ last.op = "sweep_return"
    /\ pc = "sweep" /\ tick # "none" => tick = "mc"
    /\ tick = "none" /\ trace # <<>> =>
          /\ trace = <<"monte_carlo_sweep", "relax_phases">>
          /\ last.op = "step_simulation"

\* A tick has returned.
C4_Witness == last.op = "step_simulation" /\ Len(trace) = 2

\* C5: an affordable proposal is applied for sure when delta < 0, otherwise
\* exactly on the draws below exp(-delta / T_eff); and a draw that accepts
\* delta accepts every lower delta.
C5_AcceptanceMonotone ==
    [][IsProposal' /\ last'.can_afford =>
         \A d \in {proposal_delta(sigma, phi, N_pot, last'.node)} :
             /\ d < 0 => last'.did_flip
             /\ d >= 0 /\ last'.u >= 0 =>
                   (last'.did_flip <=>
                      last'.u < ExpNegQ((d * Q) \div config.T_eff))
             /\ \A u \in Draws, d1 \in (d - Q) .. d :
                   metropolis_accept(d, u) => metropolis_accept(d1, u)]_vars

\* An affordable uphill proposal was accepted on its draw.
C5_Witness == IsProposal /\ last.can_afford /\ last.u >= 0 /\ last.did_flip

\* C6: a proposal that is not applied (unaffordable, or rejected by the
\* draw) leaves every activation (the trial flip undone), every phase and
\* the reservoir as they were.
C6_VoidedProposalNoEffect ==
    [][IsProposal' /\ ~last'.did_flip =>
         sigma' = sigma /\ phi' = phi /\ N_pot' = N_pot]_vars

\* A proposed activation was voided because the reservoir was below its cost.
C6_Witness == IsProposal /\ ~last.did_flip /\ ~last.can_afford

\* C7 as stated: the charge of an applied activation depends only on the
\* active-node count, so it is the same for every phase field (phases leave
\* the count unchanged).
C7_ChargeFromActiveCount ==
    [][IsProposal' /\ last'.did_flip /\ sigma[last'.node] = -1 =>
         \A ph \in [Nodes -> Phases] :
            N_pot - N_pot' =
               can_afford_transition(sigma, ph, N_pot, last'.node, 1).cost]_vars

\* C7 amended: an applied activation charges exactly the cost
\* can_afford_transition computed on the state before the flip (the base
\* cost plus the barrier consumption over the node's TS links, at least the
\* base cost), and a proposal that is not applied charges nothing.
C7_ChargeIsTransitionCost ==
    [][IsProposal' =>
         LET aff == can_afford_transition(sigma, phi, N_pot, last'.node, 1)
         IN  /\ last'.did_flip /\ sigma[last'.node] = -1 =>
                   /\ N_pot' = N_pot - aff.cost
                   /\ aff.cost >= config.delta_Npot_base_actualisation
             /\ ~last'.did_flip => N_pot' = N_pot]_vars

\* An activation was applied on a node that has a TS link.
C7_Witness ==
    /\ IsProposal /\ last.did_flip
    /\ sigma[last.node] = 1
    /\ \E m \in Nodes : is_ts(last.node, m)

\* C8 as stated: an applied deactivation of node i refunds
\* refund_factor * density(i), up to the upper clamp, when density(i) is at
\* or above the soliton threshold, and nothing below it.
C8_DeactivationRefunds ==
    [][IsProposal' /\ last'.did_flip /\ sigma[last'.node] = 1 =>
         \A rf \in RefundFactors, th \in SolitonThresholds :
            LET dens == get_effective_rho(sigma, N_pot, last'.node)
            IN  IF dens >= th
                THEN N_pot' = Min(N_pot_max, N_pot + (rf * dens) \div Q)
                ELSE N_pot' = N_pot]_vars

\* C8 amended: an applied deactivation leaves the reservoir unchanged,
\* whatever the density of the node.
C8_DeactivationFree ==
    [][IsProposal' /\ last'.did_flip /\ sigma[last'.node] = 1 =>
         N_pot' = N_pot]_vars

\* A node whose density was at or above the threshold was deactivated while
\* the reservoir was below its maximum.
C8_Witness ==
    /\ IsProposal /\ last.did_flip
    /\ sigma[last.node] = -1
    /\ N_pot < N_pot_max
    /\ \E th \in SolitonThresholds :
          30 + (70 * N_pot_ratio(N_pot)) \div Q >= th

\* C9 as stated: when the tick finishes after the sweep, the reservoir has
\* grown by refund_factor times the summed densities of every cluster that
\* had an active member in the pre-sweep snapshot and is fully inactive
\* now (up to the upper clamp), and by nothing otherwise.
C9_ClusterRefund ==
    [][tick = "relax" /\ tick' = "none" =>
         \A rf \in RefundFactors, th \in SolitonThresholds :
            N_pot' = Min(N_pot_max,
                         N_pot + cluster_refund(prior_sigma, sigma, rho,
                                                rf, th))]_vars

\* C9 amended: a tick runs no cluster accounting: from the return of the
\* sweep to the return of the tick the reservoir is unchanged, whatever
\* clusters dissolved since the snapshot, and no step of a tick raises it.
C9_NoClusterRefund ==
    [][/\ tick = "relax" /\ tick' = "none" => N_pot' = N_pot
       /\ tick # "none" => N_pot' <= N_pot]_vars

\* A tick has returned with a cluster that dissolved since the snapshot,
\* the reservoir being below its maximum.
C9_Witness ==
    /\ last.op = "step_simulation"
    /\ N_pot < N_pot_max
    /\ \E rf \in RefundFactors, th \in SolitonThresholds :
          cluster_refund(prior_sigma, sigma, rho, rf, th) > 0

\* C10: only a Metropolis proposal of the sweep changes sigma: relax_phases,
\* the relaxation of a tick, compute_g_eff, update_phase_and_rho and
\* find_soliton_clusters leave every sigma as it was, and
\* find_soliton_clusters leaves every phase as it was.
C10_OnlySweepChangesSigma ==
    [][/\ last'.op \in {"relax_phases", "step_simulation", "compute_g_eff",
                        "update_phase_and_rho", "update_phase_and_rho_error",
                        "find_soliton_clusters"} => sigma' = sigma
       /\ last'.op = "find_soliton_clusters" => phi' = phi
       /\ sigma' # sigma =>
             last'.op \in {"sweep_step", "sweep_return"} /\ last'.did_flip]_vars

\* The propagation has run on a model with an active node, after a sweep
\* activated it, and moved a phase.
C10_Witness ==
    /\ last.op = "update_phase_and_rho"
    /\ count_active_nodes(sigma) > 0
    /\ N_pot < (N_pot_max * config.N_pot_initial_fraction) \div Q
    /\ \E n \in Nodes : phi[n] # 0

\* C11: one sweep proposes a flip for every node exactly once, in the order
\* of the permutation drawn when the sweep begins (the permutation is kept,
\* the position advances by one from 1 to the number of nodes, and every
\* step inside a sweep is the proposal for the node at the position); each
\* proposal is metropolis_step on the fields as the earlier proposals of the
\* sweep left them, so it sees their flips and reservoir charges.
C11_SweepSequential ==
    [][/\ pc = "idle" /\ pc' = "sweep" =>
             perm' \in NodePermutations /\ pos' = 1
       /\ pc = "sweep" =>
             /\ perm \in NodePermutations
             /\ pos \in 1 .. NumNodes
             /\ last'.op \in {"sweep_step", "sweep_return"}
             /\ last'.node = perm[pos]
             /\ \E r \in {metropolis_step(sigma, phi, N_pot, perm[pos], u) :
                            u \in Draws} :
                   /\ sigma' = r.sigma
                   /\ N_pot' = r.N_pot
                   /\ last'.did_flip = r.did_flip
                   /\ last'.can_afford = r.can_afford
             /\ IF pos < NumNodes
                THEN pc' = "sweep" /\ perm' = perm /\ pos' = pos + 1
                ELSE \/ pc' = "idle" /\ sweeps_left = 0
                     \/ /\ pc' = "sweep" /\ sweeps_left > 0
                        /\ perm' \in NodePermutations /\ pos' = 1]_vars

\* The sweep of a tick has returned; its last proposal was rejected, on an
\* energy difference that the flips applied earlier in the same sweep had
\* changed from what the fields at the start of the tick gave.
C11_Witness ==
    /\ tick = "relax"
    /\ last.op = "sweep_return"
    /\ ~last.did_flip
    /\ last.can_afford
    /\ prior_sigma # sigma
    /\ proposal_delta(sigma, phi, N_pot, last.node)
          # proposal_delta(prior_sigma, phi, N_pot, last.node)

\* C12: a call of compute_g_eff stores weights that are a function of the
\* density field alone (for given parameters): the tables it leaves are
\* those built from rho whatever the previous tables were, a call right
\* after a call leaves the same tables, and the call changes none of sigma,
\* phi, rho and N_pot.
C12_GEffIdempotent ==
    [][last'.op = "compute_g_eff" =>
         /\ \E pr \in GEffParams : g_eff' = compute_g_eff(rho, pr)
         /\ last.op = "compute_g_eff" => g_eff' = g_eff
         /\ sigma' = sigma /\ phi' = phi /\ rho' = rho /\ N_pot' = N_pot]_vars

\* The weights were computed again after a propagation pass, which needed
\* earlier weights, had changed the density field.
C12_Witness ==
    /\ last.op = "compute_g_eff"
    /\ g_eff.stored
    /\ rho # AttachedRho

\* C13 as stated: once the weights are computed, a propagation pass raises
\* no error, and a node with no neighbour, or whose neighbour weights are
\* all zero, keeps its phase and its density through the pass.
C13_NoNeighborNoError ==
    [][/\ g_eff.stored
       /\ last'.op \in {"update_phase_and_rho", "update_phase_and_rho_error"}
       =>
       /\ last'.op = "update_phase_and_rho"
       /\ \A i \in Nodes :
             \/ get_neighbors(i) = {}
             \/ \A j \in get_neighbors(i) : twist_weight(g_eff, i, j) = 0
             => phi'[i] = phi[i] /\ rho'[i] = rho[i]]_vars

C15_ScenarioTick ==
    last.op = "step_simulation" =>
        /\ count_active_nodes(sigma) >= 1
        /\ N_pot = (N_pot_max * config.N_pot_initial_fraction) \div Q
                   - config.delta_Npot_base_actualisation
                     * count_active_nodes(sigma)
        /\ N_pot >= 0

\* The tick of the scenario has returned with a node left inactive because
\* the reservoir no longer covered the activation cost.
C15_Witness ==
    /\ last.op = "step_simulation"
    /\ graph = GraphPath
    /\ count_active_nodes(sigma) \in 1 .. (NumNodes - 1)
    /\ N_pot < config.delta_Npot_base_actualisation

\* C16: for a node with no edge, every step of the engine (the sweep and
\* the relaxation of a tick, the metric computation, the propagation)
\* leaves its phase and its density as they were, while its activation can
\* change: the energy difference of its flip is the reservoir-fill term
\* alone, 2 * sigma * DeltaE * (2 * N_pot / N_pot_max - 1), so its
\* activation has delta < 0, and is applied whenever affordable, when the
\* reservoir is more than half full, and has delta > 0 when the reservoir
\* is less than half full.
C16_IsolatedNode ==
    [][\A i \in Nodes : get_neighbors(i) = {} =>
          /\ phi'[i] = phi[i]
          /\ rho'[i] = rho[i]
          /\ \A d \in {proposal_delta(sigma, phi, N_pot, i)} :
                /\ d = 2 * sigma[i]
                       * ((config.DeltaE * (2 * N_pot_ratio(N_pot) - Q))
                          \div Q)
                /\ sigma[i] = -1 /\ 2 * N_pot > N_pot_max => d < 0
                /\ sigma[i] = -1 /\ 2 * N_pot < N_pot_max => d > 0
                /\ /\ IsProposal' /\ last'.node = i /\ last'.can_afford
                   /\ sigma[i] = -1 /\ 2 * N_pot > N_pot_max
                   => last'.did_flip /\ sigma'[i] = 1]_vars

\* The node without edge has just been activated by a proposal, its phase
\* being other than zero.
C16_Witness ==
    /\ IsProposal /\ last.did_flip
    /\ get_neighbors(last.node) = {}
    /\ sigma[last.node] = 1
    /\ phi[last.node] # 0

\* C17 as stated: a run is determined by its seed and the draws of the
\* seeded source (np.random: the permutation and the acceptance draw of
\* the sweep): from one state, a sweep step has one outcome per value of
\* its draw, and the propagation pass, which takes no draw from the seeded
\* source, has one outcome.
C17_SeededDeterminism ==
    /\ pc = "sweep" =>
          \A u \in Draws \cup {-1} :
             ~ /\ ENABLED (SweepStep /\ last'.u = u /\ last'.did_flip)
               /\ ENABLED (SweepStep /\ last'.u = u /\ ~last'.did_flip)
    /\ Idle /\ g_eff.stored =>
          \A i \in Nodes, k \in Phases :
             ~ /\ ENABLED (UpdatePhaseAndRho /\ phi'[i] = k)
               /\ ENABLED (UpdatePhaseAndRho /\ phi'[i] # k)

\* C18 as stated: an option absent from the supplied configuration takes
\* its default in WBModel.config, and loading a malformed or unreadable
\* configuration file fails: the run stops there and no model is created.
C18_MalformedFailsFast ==
    [][/\ pc = "loaded" /\ pc' = "created" =>
             \A k \in DOMAIN DefaultConfig :
                (\A p \in config : p[1] # k) => config'[k] = DefaultConfig[k]
       /\ last'.op = "load_config_error" => pc' = "stopped"]_vars

\* C18 amended: an option absent from the supplied configuration takes its
\* default in WBModel.config and a supplied option its supplied value; a
\* malformed or unreadable configuration file does not make loading fail:
\* load_config returns the empty configuration, the run goes on and the
\* model is created with every option at its default.
C18_MalformedFallsBack ==
    [][/\ pc = "loaded" /\ pc' = "created" =>
             /\ \A k \in DOMAIN DefaultConfig :
                   (\A p \in config : p[1] # k)
                   => config'[k] = DefaultConfig[k]
             /\ \A p \in config : config'[p[1]] = p[2]
             /\ last.op = "load_config_error" => config' = DefaultConfig
       /\ last'.op = "load_config_error" =>
             pc' = "loaded" /\ config' = {}]_vars

\* load_config has taken its except branch on a malformed or unreadable
\* file and returned: the run is about to create the model.
C18_Witness ==
    /\ last.op = "load_config_error"
    /\ pc = "loaded"
    /\ config = {}

\* C19 as stated: run_simulation ends after exactly num_steps ticks, calls
\* the callback once after each tick with the indices 0 .. num_steps - 1 in
\* increasing order, and the record of tick k carries the index k, the
\* reservoir and the active-node count of the model at the end of tick k,
\* the vacuum scale and the mean density.
C19_RecordPerTick ==
    [][/\ run'.history # run.history =>
             /\ last.op = "step_simulation"
             /\ run'.history = Append(run.history,
                                      run'.history[Len(run'.history)])
             /\ LET rec == run'.history[Len(run'.history)]
                IN  /\ rec.step = Len(run.history)
                    /\ rec.N_pot = N_pot
                    /\ rec.num_active = count_active_nodes(sigma)
                    /\ {"step", "N_pot", "num_active", "vacuum_scale",
                        "mean_density"} \subseteq rec.keys
             /\ run.callback =>
                   run'.calls = Append(run.calls, Len(run.history))
       /\ run.active /\ ~run'.active =>
             Len(run.history) = run.num_steps]_vars

\* C19 amended: run_simulation ends, after exactly num_steps ticks; after
\* each tick it appends one record and calls the callback (when one is
\* given) once, with the indices 0 .. num_steps - 1 in increasing order;
\* the record of tick k carries the index k and the reservoir and the
\* active-node count of the model at the end of tick k, with the flip
\* count, energy delta and acceptance ratio of the sweep and the phase
\* coherence; it carries no vacuum scale and no mean density.
C19_RunRecords ==
    /\ [][/\ run'.history # run.history =>
                /\ last.op = "step_simulation"
                /\ run'.history = Append(run.history,
                                         run'.history[Len(run'.history)])
                /\ LET rec == run'.history[Len(run'.history)]
                   IN  /\ rec.step = Len(run.history)
                       /\ rec.N_pot = N_pot
                       /\ rec.num_active = count_active_nodes(sigma)
                       /\ rec.keys = {"flips", "energy_delta",
                                      "acceptance_ratio", "coherence",
                                      "num_active", "N_pot", "step"}
                /\ run'.calls = IF run.callback
                                THEN Append(run.calls, Len(run.history))
                                ELSE run.calls
          /\ last'.op = "step_simulation" /\ run.active =>
                Len(run.history) < run.num_steps
          /\ run.active /\ ~run'.active =>
                /\ Len(run.history) = run.num_steps
                /\ run.callback =>
                      run.calls = [k \in 1 .. run.num_steps |-> k - 1]]_vars
    /\ (run.active ~> (~run.active /\ Len(run.history) = run.num_steps))

\* A run of two ticks with a callback has returned, the reservoir having
\* gone down between the two records.
C19_Witness ==
    /\ last.op = "run_simulation"
    /\ Len(run.history) = 2
    /\ run.calls = <<0, 1>>
    /\ run.history[2].N_pot < run.history[1].N_pot

\* C20 as stated: in every graph a provider has produced, each link
\* flagged TS joins a node to its antipode, the antipode map is an
\* involution (with at most one antipode per node), and no link is a
\* self-loop or a duplicate; for both RP2Graph implementations.
C20_TSJoinsAntipodes ==
    pc = "done" =>
        /\ \A e \in graph.ts :
              \E n \in DOMAIN graph.antipode : e = {n, graph.antipode[n]}
        /\ \A n \in DOMAIN graph.antipode :
              /\ graph.antipode[n] \in DOMAIN graph.antipode
              /\ graph.antipode[graph.antipode[n]] = n
        /\ \A e \in graph.edges : Cardinality(e) = 2

\* C20 amended: every graph produced has no self-loop and no duplicate
\* link, its links join nodes of the graph and its TS links are links of
\* the graph.  In a graph of core/graph_rp2.py each TS link joins a node to
\* its antipode, every node has exactly one antipode (the centre is its
\* own) and the antipode map is an involution.  A graph of
\* core/rp2_graph.py has no antipode map: its TS links are
\* int(number of links * ts_links_fraction) links of the lattice, each
\* joining two adjacent nodes.
C20_ProviderGraphs ==
    pc = "done" =>
        /\ \A e \in graph.edges : Cardinality(e) = 2 /\ e \subseteq graph.nodes
        /\ graph.ts \subseteq graph.edges
        /\ graph.impl = "graph_rp2" =>
              /\ DOMAIN graph.antipode = graph.nodes
              /\ \A n \in graph.nodes :
                    graph.antipode[graph.antipode[n]] = n
              /\ \A e \in graph.ts :
                    \E n \in graph.nodes : e = {n, graph.antipode[n]}
              /\ graph.edges \ graph.ts = lattice_edges(graph.radius)
        /\ graph.impl = "rp2_graph" =>
              /\ DOMAIN graph.antipode = {}
              /\ graph.edges = lattice_edges(graph.radius)
              /\ Cardinality(graph.ts)
                    = (Cardinality(graph.edges) * graph.ts_links_fraction)
                      \div 100

\* A graph of core/graph_rp2.py of the largest radius has been produced,
\* with its TS links.
C20_Witness ==
    /\ pc = "done"
    /\ graph.impl = "graph_rp2"
    /\ graph.radius = MaxRadius
    /\ Cardinality(graph.ts) >= 3

\* C21: calculate_interaction_energy, calculate_node_energy,
\* calculate_barrier_cost and can_afford_transition are pure: a call, for
\* any node and arguments in any state between ticks, leaves sigma, phi and
\* N_pot as they were, and a call made right after the same call with the
\* same arguments returns the same value.
C21_EnergyFunctionsPure ==
    [][last'.op \in QueryOps =>
         /\ sigma' = sigma
         /\ phi' = phi
         /\ N_pot' = N_pot
         /\ last.op = last'.op /\ last.args = last'.args =>
               last'.value = last.value]_vars

\* can_afford_transition was asked, after a sweep had charged the
\* reservoir, about an activation the reservoir no longer covers.
C21_Witness ==
    /\ last.op = "can_afford_transition"
    /\ ~last.value.can_afford
    /\ last.value.cost > N_pot
    /\ N_pot < (N_pot_max * config.N_pot_initial_fraction) \div Q

\* The nodes joined to node a by a path through nodes of allowed only.
RECURSIVE PathClosure(_, _)
PathClosure(S, allowed) ==
    LET more == {v \in allowed \ S : \E u \in S : {u, v} \in graph.edges}
    IN  IF more = {} THEN S ELSE PathClosure(S \cup more, allowed)

\* C22: find_soliton_clusters returns a partition of exactly the nodes with
\* rho >= threshold: every such node is in exactly one returned cluster, no
\* node below the threshold is in any cluster, no cluster is empty, any two
\* members of a cluster are joined by a path through nodes at or above the
\* threshold only, and no graph edge joins members of two different
\* clusters.
C22_ClustersPartition ==
    last.op = "find_soliton_clusters" =>
        \A threshold \in SolitonThresholds :
           LET clusters == last.clusters
               above == {n \in Nodes : rho[n] >= threshold}
           IN  /\ \A n \in above :
                     Cardinality({k \in DOMAIN clusters : n \in clusters[k]})
                        = 1
               /\ \A k \in DOMAIN clusters :
                     /\ clusters[k] # {}
                     /\ clusters[k] \subseteq above
                     /\ \A a \in clusters[k] :
                           clusters[k] \subseteq PathClosure({a}, above)
               /\ \A k1, k2 \in DOMAIN clusters :
                     k1 # k2 =>
                        \A a \in clusters[k1], b \in clusters[k2] :
                           {a, b} \notin graph.edges

\* The search has returned two clusters, separated by a node below the
\* threshold.
C22_Witness ==
    /\ last.op = "find_soliton_clusters"
    /\ Len(last.clusters) = 2
    /\ \E n \in Nodes : \A k \in DOMAIN last.clusters : n \notin last.clusters[k]

\* The active neighbours of node i.
active_neighbors(i) == {j \in get_neighbors(i) : sigma[j] = 1}

\* Grid angle k is the circular mean angle of the phases ph of the nodes of
\* S: the direction of the sum of their unit vectors (any angle when the
\* sum is the zero vector).
IsCircularMean(k, ph, S) ==
    LET c == SumOver(S, [j \in Nodes |-> CosQ(ph[j])])
        s == SumOver(S, [j \in Nodes |-> SinQ(ph[j])])
    IN  \/ c = 0 /\ s = 0
        \/ /\ c * SinQ(k) = s * CosQ(k)
           /\ c * CosQ(k) + s * SinQ(k) > 0

\* One step of XY relaxation written out: every active node moves by
\* delta_phi_relaxation_step times the sum, over its active neighbours, of
\* -J_eff * sin(phi_i - phi_j - A_top), and is reduced modulo 2*pi.
xy_step(ph) ==
    [i \in Nodes |->
       IF sigma[i] = 1
       THEN (ph[i]
             + (config.delta_phi_relaxation_step
                * SumOver(active_neighbors(i),
                          [j \in Nodes |->
                             -(((IF {i, j} \in graph.ts
                                 THEN config.J_prime_Wb_ts
                                 ELSE config.J_Wb_normal)
                                * SinQ(ph[i] - ph[j]
                                       - (IF {i, j} \in graph.ts
                                          THEN PhaseUnits \div 2 ELSE 0)))
                               \div Q)]))
               \div (Q * Q)) % PhaseUnits
       ELSE ph[i]]

RECURSIVE xy_steps(_, _)
xy_steps(ph, n) == IF n = 0 THEN ph ELSE xy_steps(xy_step(ph), n - 1)

\* C23 as stated: the relaxation of a tick sets the phase of every active
\* node that has an active neighbour to the circular mean angle of its
\* active neighbours' phases, in one smoothing pass.
C23_CircularMeanOnce ==
    [][tick = "relax" /\ tick' = "none" =>
         /\ \A i \in Nodes :
               sigma[i] = 1 /\ active_neighbors(i) # {} =>
                  IsCircularMean(phi'[i], phi, active_neighbors(i))
         /\ phi' = xy_step(phi)]_vars

\* C23 amended: the relaxation is an XY gradient step: a step moves the
\* phase of every active node by delta_phi_relaxation_step times the sum,
\* over its active neighbours, of -J_eff * sin(phi_i - phi_j - A_top)
\* (computed for all nodes from the phases before the step) and reduces it
\* modulo 2*pi, leaving inactive nodes alone; a tick runs num_relax_steps
\* (5 by default) such steps, a direct call relax_phases its num_steps.
C23_XYRelaxation ==
    [][/\ tick = "relax" /\ tick' = "none" =>
             phi' = xy_steps(phi, DefaultRelaxSteps)
       /\ last'.op = "relax_phases" =>
             \E n \in 1 .. MaxRelaxSteps : phi' = xy_steps(phi, n)]_vars

\* A tick has returned with two adjacent active nodes whose phases differ.
C23_Witness ==
    /\ last.op = "step_simulation"
    /\ \E i \in Nodes :
          /\ sigma[i] = 1
          /\ \E j \in active_neighbors(i) : phi[j] # phi[i]

\* C24 as stated: relax_phases leaves the phase of every inactive node and
\* of every active node with no active neighbour unchanged, and a
\* relaxation step computes all its updates from the phases held before
\* the step (here in double arithmetic, on phases 0.0 and fl(2*pi)).
C24_RelaxFrameSynchronized ==
    [][last'.op \in {"relax_phases", "step_simulation"} =>
         /\ \A i \in Nodes :
               sigma[i] = -1 \/ active_neighbors(i) = {} =>
                  phi'[i] = phi[i]
         /\ last'.op = "relax_phases" /\ MaxRelaxSteps = 1 =>
               phi' = relax_step_float(sigma, phi)]_vars

\* C25: every density the engine produces lies in [0.1, 1.0]: in every
\* reachable state get_effective_rho is 0.1 for an inactive node and in
\* [0.3, 1.0] for an active node, and the densities update_phase_and_rho
\* has written lie in [0.1, 1.0].
C25_DensityInRange ==
    /\ \A n \in Nodes :
          /\ sigma[n] = -1 => get_effective_rho(sigma, N_pot, n) = 10
          /\ sigma[n] = 1 =>
                /\ 30 <= get_effective_rho(sigma, N_pot, n)
                /\ get_effective_rho(sigma, N_pot, n) <= 100
    /\ last.op = "update_phase_and_rho" =>
          \A n \in Nodes : 10 <= rho[n] /\ rho[n] <= 100

\* A propagation pass has written the densities of a model with a full
\* reservoir, an active node (effective density 1.0) and an inactive one.
C25_Witness ==
    /\ last.op = "update_phase_and_rho"
    /\ \E n \in Nodes :
          /\ sigma[n] = 1
          /\ get_effective_rho(sigma, N_pot, n) = 100
          /\ rho[n] = 90
    /\ \E m \in Nodes : sigma[m] = -1 /\ rho[m] = 40

\* C26 as stated: after initialize_fields every node has an entry in each
\* field (activation, phase and density), with activation in {-1, +1} and
\* phase in [0, 2*pi); the all-inactive pattern gives no active node, the
\* single-center-active pattern exactly one, and the uniform-zero pattern
\* sets every phase to 0.
C26_FieldsInitialized ==
    last.op = "init" /\ pc = "idle" /\ tick = "none" /\ "args" \in DOMAIN last
    =>
    /\ DOMAIN sigma = Nodes
    /\ DOMAIN phi = Nodes
    /\ DOMAIN rho = Nodes
    /\ \A n \in Nodes : sigma[n] \in {-1, 1}
    /\ \A n \in Nodes : 0 <= phi[n] /\ phi[n] < PhaseUnits
    /\ last.args[1] = "all_P" => count_active_nodes(sigma) = 0
    /\ last.args[1] = "center_A" => count_active_nodes(sigma) = 1
    /\ last.args[2] = "uniform_zero" => \A n \in Nodes : phi[n] = 0

\* C27 as stated: a lookup of a node without entry is an error and never a
\* silent default: a proposal of metropolis_step (direct, or inside
\* monte_carlo_sweep) for a node that has no entry in sigma records no flip
\* for that node and stores no activation value for it.
C27_LookupMissIsError ==
    [][IsProposal' /\ last'.node \notin DOMAIN sigma =>
         /\ ~last'.did_flip
         /\ last'.node \notin DOMAIN sigma']_vars

C29_ReservoirNonIncreasing ==
    [][/\ config.delta_Npot_base_actualisation >= 0 => N_pot' <= N_pot
       /\ \A n \in Nodes :
             sigma[n] = 1 /\ sigma'[n] = -1 => N_pot' = N_pot]_vars

\* A sweep has returned on an applied deactivation, with a positive base
\* cost and a reservoir that earlier activations had already charged.
C29_Witness ==
    /\ last.op = "sweep_return"
    /\ last.did_flip
    /\ sigma[last.node] = -1
    /\ config.delta_Npot_base_actualisation > 0
    /\ 0 < N_pot /\ N_pot < N_pot_max

\* C30: the lower clamp of update_N_pot is never exercised by the sweep: a
\* proposal applies an activation only when the reservoir before the step
\* is at least the cost can_afford_transition computes on that state, and
\* then N_pot becomes exactly N_pot - cost >= 0; every other proposal
\* leaves N_pot as it was (so the decrease over a sweep is the sum of the
\* costs of its applied activations); and the flips a sweep has counted
\* never exceed the proposals it has made, the returned count never
\* num_sweeps * num_nodes.
C30_ClampNeverExercised ==
    /\ [][IsProposal' =>
            LET aff == can_afford_transition(sigma, phi, N_pot,
                                             last'.node, 1)
                applied == /\ last'.did_flip
                           /\ sigma[last'.node] = -1
            IN  /\ applied =>
                      /\ aff.can_afford
                      /\ N_pot >= aff.cost
                      /\ N_pot - aff.cost >= 0
                      /\ N_pot' = N_pot - aff.cost
                      /\ N_pot' = update_N_pot(N_pot, aff.cost)
                /\ ~applied => N_pot' = N_pot]_vars
    /\ [](pc = "sweep" =>
            flips <= (MaxSweeps - 1 - sweeps_left) * NumNodes + (pos - 1))
    /\ [](last.op = "sweep_return" => last.flips <= MaxSweeps * NumNodes)

\* A sweep has returned with at least one applied flip counted and its
\* last proposal refused because the reservoir, charged by the activations
\* of this sweep, was below the cost.
C30_Witness ==
    /\ last.op = "sweep_return"
    /\ last.flips >= 1
    /\ ~last.can_afford
    /\ N_pot < config.delta_Npot_base_actualisation

=============================================================================
